---- MODULE Spec2Model ----
(***************************************************************************)
(* Model of the valuation service (src/src/bin/valuation-service.rs), of   *)
(* the market-data ingest loop (src/src/services/market_data/finnhub.rs)   *)
(* and of the library: services/portfolio.rs, services/risk.rs, models.rs. *)
(*                                                                         *)
(* Numbers.  Quantities and prices are f64 in the source.  Here a quantity *)
(* is an integer count of f64::EPSILON: EPSILON == 1, a quantity of 1 is   *)
(* exactly epsilon ("dust"), and the even quantities (multiples of Unit)   *)
(* are whole shares.  On such values f64 arithmetic is exact, so +, - and  *)
(* the comparisons below are the ones the program computes.  The library  *)
(* divides and averages: its f64 is modelled with its rounding, in a       *)
(* format of MantissaBits significant bits (see "f64 arithmetic").         *)
(*                                                                         *)
(* Database.  A statement takes effect at one instant.  Statements that    *)
(* write succeed or fail (the handlers match on the result or drop it);    *)
(* statements that read are taken to succeed.                              *)
(*                                                                         *)
(* Specifications.  SpecLots: the replay as a function of the log.         *)
(* SpecSeq: the handlers, one request at a time.  SpecHandlers: the        *)
(* handlers in two slots at once.  SpecStream: publishing handlers and the *)
(* GET /stream clients.  SpecIngest: run_loop against the database, and    *)
(* SpecIngestFair: the same with the task scheduled fairly.  SpecFeed:     *)
(* run_loop next to the handlers that write the registry.  SpecOrder: the  *)
(* replay of a log with its insertion order.  SpecRestart: the handlers in *)
(* a process that can restart.  SpecConfig: the provider configuration and *)
(* its two handlers.  SpecProxy: one GET /price-stream request.            *)
(* SpecPortfolio: the operations of a Portfolio.  SpecRisk, SpecValue,     *)
(* SpecKernel: calculate_var and calculate_expected_shortfall,             *)
(* value_portfolio, and the two Valuators, each on inputs drawn by Init.   *)
(* SpecMutex: the handlers event by event around the snapshot mutex, and   *)
(* SpecMutexFair: the same with every task scheduled fairly.               *)
(* Spec: handlers in two slots and the stream clients together.            *)
(***************************************************************************)
EXTENDS Integers, Sequences, FiniteSets, TLC

VARIABLES
    txs,            \* table transactions: a set of rows, id unique
    instruments,    \* table instruments: symbol -> <<>> (no row) or <<price>>
    price_history,  \* table price_history: the rows [s, p] in insertion order
    portfolio,      \* AppState.portfolio: the cached snapshot
    bus,            \* AppState.tx: the broadcast channel
    subs,           \* the GET /stream clients
    reqs,           \* the request handlers in flight, one per slot
    ws,             \* the ingest task (LiveFinnhubWs::run_loop)
    hist,           \* bookkeeping: sends so far, requests left, refusals
    lots_out,       \* <<>> before the replay has run, <<lots>> after it (SpecLots)
    provider,       \* the provider configuration: AppState.provider_config,
                    \* the row of table provider_config, the environment
    lib_portfolio,  \* a services::portfolio::Portfolio (SpecPortfolio)
    call,           \* a call of the valuation library: its arguments, then its result
    mutex           \* AppState.portfolio as a lock: its holder, and where each task
                    \* is in its handler (SpecMutex)

db == <<txs, instruments, price_history>>
lib == <<provider, lib_portfolio, call, mutex>>
vars == <<txs, instruments, price_history, portfolio, bus, subs, reqs, ws, hist, lots_out,
          provider, lib_portfolio, call, mutex>>

----------------------------------------------------------------------------
(* Bounds and input sets *)

MaxLog == 3                      \* rows of a replayed log (SpecLots)
MaxTx == 2                       \* rows the service's log can hold
MaxReq == 3                      \* requests the service handles in one run
Capacity == 2                    \* slots of the broadcast channel (100 in main)
MaxRace == 2                     \* requests handled in one run with two slots, or with restarts
MaxRestarts == 1                 \* restarts of the process in one run (SpecRestart)
MaxProxyTicks == 2               \* trade records one GET /price-stream relays (SpecProxy)
MantissaBits == 5                \* significant bits of an f64 of the library (53 in the build)
MaxClock == 1                    \* readings of Utc::now() are 0 .. MaxClock (SpecPortfolio)
MaxRuns == 3                     \* handlers and streams started (SpecMutex)
MaxSimulations == 2              \* num_simulations of a MonteCarloModel (SpecKernel)
MaxSteps == 1                    \* time_steps of a MonteCarloModel (SpecKernel)
MaxReturns == 3                  \* returns in a vector (SpecRisk)
MaxPositions == 2                \* positions of a valued Portfolio (SpecValue)
MaxAdds == 3                     \* add_position calls on one Portfolio (SpecPortfolio)
MaxInserted == 3                 \* rows of a log with its insertion order (SpecOrder)
MaxTicks == 3                    \* trade records and skipped frames the feed delivers in one run

Symbols == {"A", "B"}
EPSILON == 1                     \* f64::EPSILON, the unit quantities are counted in
Unit == 2 * EPSILON              \* one whole share, a quantity above EPSILON
Times == {1, 2}                  \* timestamps a row can carry
NoPrice == <<>>                  \* price IS NULL (Option::None)

LogIds == 1 .. MaxLog
TxIds == 1 .. MaxTx
Slots == {"r1", "r2"}            \* request handlers that can run at once
Clients == {"s1", "s2"}          \* GET /stream clients
Prices == {0, 1, 2}              \* registry prices
NoRow == <<>>                    \* the registry has no row for the symbol

\* The column values of a row, without its id.
BuyInputs ==
    [type : {"BUY"}, symbol : Symbols, quantity : {2},
     price : {NoPrice, <<1>>}, timestamp : Times]
    \cup [type : {"BUY"}, symbol : Symbols, quantity : {4},
          price : {<<1>>}, timestamp : Times]
    \cup [type : {"BUY"}, symbol : Symbols, quantity : {1},
          price : {NoPrice}, timestamp : Times]
SellInputs ==
    [type : {"SELL"}, symbol : Symbols, quantity : {1, 2, 4},
     price : {NoPrice}, timestamp : Times]
RowInputs == BuyInputs \cup SellInputs

\* The bodies POST /transactions is called with in the service runs.
TxRequests ==
    [type : {"BUY"}, symbol : Symbols, quantity : {2},
     price : {<<1>>}, timestamp : {1}]
    \cup [type : {"SELL"}, symbol : Symbols, quantity : {2},
          price : {NoPrice}, timestamp : {1}]

Row(i, d) ==
    [id |-> i, type |-> d.type, symbol |-> d.symbol, quantity |-> d.quantity,
     price |-> d.price, timestamp |-> d.timestamp]

----------------------------------------------------------------------------
(* Helpers *)

\* Option::None and Option::Some(x)
None == <<>>
Some(x) == <<x>>

Max(a, b) == IF a >= b THEN a ELSE b
Min(a, b) == IF a <= b THEN a ELSE b

RECURSIVE SumSeq(_)
SumSeq(s) == IF s = <<>> THEN 0 ELSE Head(s) + SumSeq(Tail(s))

\* Sum of the quantities of a list of lots <<quantity, unit cost>>.
RECURSIVE SumQty(_)
SumQty(entry) == IF entry = <<>> THEN 0 ELSE Head(entry)[1] + SumQty(Tail(entry))

----------------------------------------------------------------------------
(* Lot engine: compute_lots_from_db *)

\* ORDER BY timestamp ASC, id ASC
\* Variant: the rows come back in the order they were inserted.
RowBefore_InsertionOrder(a, b) == a.at < b.at

\* ORDER BY timestamp ASC, id ASC
RowBefore(a, b) ==
    \/ a.timestamp < b.timestamp
    \/ a.timestamp = b.timestamp /\ a.id < b.id

RECURSIVE OrderedRows(_)
OrderedRows(rows) ==
    IF rows = {} THEN <<>>
    ELSE LET first == CHOOSE r \in rows : \A o \in rows \ {r} : RowBefore(r, o)
         IN  <<first>> \o OrderedRows(rows \ {first})

\* row.try_get("price").ok().flatten().unwrap_or(0.0)
PriceOrZero(p) == IF p = NoPrice THEN 0 ELSE p[1]

\* entry.retain(|(q, _)| *q > f64::EPSILON)
RetainOpen(entry) == SelectSeq(entry, LAMBDA l : l[1] > EPSILON)

\* The while loop of the SELL arm; i is the 1-based index of the head lot.
RECURSIVE SellLoop(_, _, _)
RECURSIVE SellLoop_KeepsToSell(_, _, _)
RECURSIVE SellLoop_NoClamp(_, _, _)
RECURSIVE SellLoop_FromTail(_, _, _)

\* SellLoop without "to_sell -= *lot_qty": a consumed lot does not reduce
\* what is left to sell.
SellLoop_KeepsToSell(entry, to_sell, i) ==
    IF to_sell > 0 /\ i <= Len(entry)
    THEN IF entry[i][1] <= to_sell + EPSILON
         THEN SellLoop_KeepsToSell([entry EXCEPT ![i] = <<0, @[2]>>], to_sell, i + 1)
         ELSE SellLoop_KeepsToSell([entry EXCEPT ![i] = <<@[1] - to_sell, @[2]>>], 0, i)
    ELSE entry

\* SellLoop without the clamp: the head lot always takes the whole sale.
SellLoop_NoClamp(entry, to_sell, i) ==
    IF to_sell > 0 /\ i <= Len(entry)
    THEN [entry EXCEPT ![i] = <<@[1] - to_sell, @[2]>>]
    ELSE entry

\* SellLoop that consumes the newest lot first.
SellLoop_FromTail(entry, to_sell, i) ==
    LET j == Len(entry) + 1 - i
    IN  IF to_sell > 0 /\ i <= Len(entry)
        THEN IF entry[j][1] <= to_sell + EPSILON
             THEN SellLoop_FromTail([entry EXCEPT ![j] = <<0, @[2]>>],
                                    to_sell - entry[j][1], i + 1)
             ELSE SellLoop_FromTail([entry EXCEPT ![j] = <<@[1] - to_sell, @[2]>>], 0, i)
        ELSE entry

SellLoop(entry, to_sell, i) ==
    IF to_sell > 0 /\ i <= Len(entry)
    THEN IF entry[i][1] <= to_sell + EPSILON
         THEN SellLoop([entry EXCEPT ![i] = <<0, @[2]>>], to_sell - entry[i][1], i + 1)
         ELSE SellLoop([entry EXCEPT ![i] = <<@[1] - to_sell, @[2]>>], 0, i)
    ELSE entry

\* One row applied to the list of its symbol (the match on the type column).
ApplyRow(entry, row) ==
    IF row.type = "BUY"
    THEN IF row.quantity > 0
         THEN Append(entry, <<row.quantity, PriceOrZero(row.price)>>)
         ELSE entry
    ELSE IF row.type = "SELL"
    THEN RetainOpen(SellLoop(entry, Max(row.quantity, 0), 1))
    ELSE entry

\* The for loop over the ordered rows; a symbol without rows has no list,
\* which every reader of the map treats like an empty list.
RECURSIVE ReplayRows(_, _)
ReplayRows(lots, rows) ==
    IF rows = <<>> THEN lots
    ELSE LET row == Head(rows)
         IN  ReplayRows([lots EXCEPT ![row.symbol] = ApplyRow(@, row)], Tail(rows))

compute_lots_from_db(rows) ==
    ReplayRows([s \in Symbols |-> <<>>], OrderedRows(rows))

----------------------------------------------------------------------------
(* Portfolio builder: build_portfolio_update_from_lots *)

\* The orders in which lots.iter() can visit the symbols of the HashMap.
SymbolOrders ==
    { o \in [1 .. Cardinality(Symbols) -> Symbols] :
        \A s \in Symbols : \E k \in DOMAIN o : o[k] = s }

\* existing_prices.get(symbol).copied().unwrap_or(0.0)
PriceOf(prices, symbol) == IF prices[symbol] = NoRow THEN 0 ELSE prices[symbol][1]

\* The Position of one lot.  Unit costs are 0 or 1 here, so the division of
\* pnl_percent is exact.
PositionOf(symbol, qty, avg, price) ==
    [symbol |-> symbol, quantity |-> qty, price |-> price, value |-> price * qty,
     average_cost |-> avg, pnl |-> (price - avg) * qty,
     pnl_percent |-> IF avg > 0 THEN ((price - avg) \div avg) * 100 ELSE 0]

\* The inner loop over the lots of one symbol.
RECURSIVE PositionsOfLots(_, _, _)
RECURSIVE PositionsOfLots_MergesEqualCost(_, _, _)

\* Variant: a lot that follows a lot of the same unit cost is added to it.
PositionsOfLots_MergesEqualCost(symbol, lot_list, price) ==
    IF Len(lot_list) >= 2 /\ lot_list[1][2] = lot_list[2][2]
    THEN PositionsOfLots_MergesEqualCost(
             symbol,
             <<<<lot_list[1][1] + lot_list[2][1], lot_list[1][2]>>>>
                 \o SubSeq(lot_list, 3, Len(lot_list)),
             price)
    ELSE IF lot_list = <<>> THEN <<>>
    ELSE (IF Head(lot_list)[1] <= 0 THEN <<>>
          ELSE <<PositionOf(symbol, Head(lot_list)[1], Head(lot_list)[2], price)>>)
         \o PositionsOfLots_MergesEqualCost(symbol, Tail(lot_list), price)

PositionsOfLots(symbol, lot_list, price) ==
    IF lot_list = <<>> THEN <<>>
    ELSE (IF Head(lot_list)[1] <= 0 THEN <<>>
          ELSE <<PositionOf(symbol, Head(lot_list)[1], Head(lot_list)[2], price)>>)
         \o PositionsOfLots(symbol, Tail(lot_list), price)

\* The outer loop over the symbols, visited in the given order.
RECURSIVE PositionsInOrder(_, _, _)
PositionsInOrder(lots, prices, order) ==
    IF order = <<>> THEN <<>>
    ELSE PositionsOfLots(Head(order), lots[Head(order)], PriceOf(prices, Head(order)))
         \o PositionsInOrder(lots, prices, Tail(order))

\* positions.iter().map(|p| p.value).sum()
RECURSIVE SumValues(_)
SumValues(positions) ==
    IF positions = <<>> THEN 0
    ELSE SumValues(SubSeq(positions, 1, Len(positions) - 1))
         + positions[Len(positions)].value

\* The snapshot; its wall-clock timestamp field is not modelled.
build_portfolio_update_from_lots(lots, prices, order) ==
    LET positions == PositionsInOrder(lots, prices, order)
    IN  [portfolio_value |-> SumValues(positions), positions |-> positions]

\* Variant: the recalculation is left out.
recalc_portfolio_value_Skipped(p) == p

recalc_portfolio_value(p) == [p EXCEPT !.portfolio_value = SumValues(p.positions)]

\* Variant: the guard never finds a quantity.
has_qty_Never(lots, symbol) == FALSE

\* The guard of delete_instrument: entries.iter().any(|(q, _)| *q > f64::EPSILON)
has_qty(lots, symbol) == \E j \in 1 .. Len(lots[symbol]) : lots[symbol][j][1] > EPSILON

----------------------------------------------------------------------------
(* Broadcast bus: tokio::sync::broadcast, and the cached snapshot *)

\* The clients that hold a Receiver.
Receivers == { c \in Clients : subs[c].pc \in {"registered", "streaming"} }

LastN(q, n) == IF Len(q) <= n THEN q ELSE SubSeq(q, Len(q) - n + 1, Len(q))

\* state.tx.send(snapshot): the message takes the next slot of the ring and
\* overwrites the oldest one; with no Receiver the send fails and nothing is
\* stored.  seq numbers the calls of send; hist.cached.ver numbers the writes
\* of the cached snapshot (each carries a new timestamp or new positions) and
\* hist.cached.seq is the send that last carried it, 0 if none did.
MessageOf(snapshot) == [seq |-> hist.sends + 1, snap |-> snapshot]

\* Variant: a full ring keeps its oldest messages and drops the new one.
BusAfterSend_DropsNewest(snapshot) ==
    IF Receivers = {} THEN bus
    ELSE [pos |-> bus.pos + 1,
          buf |-> IF Len(bus.buf) < Capacity THEN Append(bus.buf, MessageOf(snapshot))
                  ELSE bus.buf]

BusAfterSend(snapshot) ==
    IF Receivers = {} THEN bus
    ELSE [pos |-> bus.pos + 1,
          buf |-> LastN(Append(bus.buf, MessageOf(snapshot)), Capacity)]

HistAfterSend(snapshot, wrote_cache) ==
    [hist EXCEPT !.sends = @ + 1,
                 !.last = <<MessageOf(snapshot)>>,
                 !.cached = [ver |-> IF wrote_cache THEN @.ver + 1 ELSE @.ver,
                             seq |-> hist.sends + 1]]

\* *portfolio = updated.clone(); let _ = state.tx.send(updated);
StoreAndSend(updated) ==
    /\ portfolio' = updated
    /\ bus' = BusAfterSend(updated)
    /\ hist' = HistAfterSend(updated, TRUE)

\* let _ = state.tx.send(portfolio.clone());
SendCached ==
    /\ bus' = BusAfterSend(portfolio)
    /\ hist' = HistAfterSend(portfolio, FALSE)
    /\ UNCHANGED portfolio

----------------------------------------------------------------------------
(* Initial state: main() *)

EmptyBus == [pos |-> 0, buf |-> <<>>]
NoClient == [pc |-> "idle", next |-> 0, reg |-> <<>>, events |-> <<>>]
\* A stream that has ended: "lagged" by Err(Lagged), "closed" by the client.
Ended(how) == [NoClient EXCEPT !.pc = how]
Idle == [op |-> "none", pc |-> "idle"]
\* boots: the restarts so far; was: the number of positions the cached
\* snapshot held when the process last stopped.
NoHist ==
    [sends |-> 0, quota |-> 0, last |-> <<>>, cached |-> [ver |-> 0, seq |-> 0],
     refused |-> {}, boots |-> 0, was |-> 0]
\* The provider configuration of a service without secrets, an empty
\* Portfolio and no library call: the state of the parts a specification
\* does not exercise.
NoProvider ==
    [cfg |-> [api_key |-> "", webhook_secret |-> ""], row |-> None,
     env |-> [FINNHUB_API_KEY |-> "", WEBHOOK_SECRET |-> ""], now |-> 0]
\* Portfolio::new: no position.  minted counts the ids Uuid::new_v4 has
\* made, adds and removes the calls that returned an id or Ok, last is the
\* last call with its result; updated_at is a reading of the clock, 0 the
\* reading Portfolio::new took.
NoPortfolio ==
    [positions |-> <<>>, minted |-> 0, adds |-> 0, removes |-> 0, last |-> [op |-> "new"],
     updated_at |-> 0]
NoCall == [fn |-> "none"]
\* Mutex::new: nobody holds the lock; no task has started.
NoMutex ==
    [holder |-> "free", at |-> [t \in Slots \cup Clients |-> 0],
     prog |-> [t \in Slots \cup Clients |-> "none"], runs |-> 0]
LibAtRest ==
    /\ provider = NoProvider
    /\ lib_portfolio = NoPortfolio
    /\ call = NoCall
    /\ mutex = NoMutex

\* The ingest task before it is spawned, and at the top of run_loop.  Beside
\* the locals of run_loop (backoff_secs, syms, data) the record keeps: seen,
\* the records and skipped frames delivered so far; batches, the frames whose
\* records were all processed; slept, the delay of the last sleep since a
\* connect last succeeded (0: none yet); tried, the subscribe frames of this
\* connection, each with the result of its send; killed, whether a
\* connection has ended; wrote, the result of the task's last write; failed, whether a write of
\* the task has failed; fault, the last failure since the task last called
\* connect_async ("none", "connect", "close", "frame", "write").
WsStart == [pc |-> "idle"]
WsLoop ==
    [pc |-> "connect", backoff_secs |-> 1, syms |-> <<>>, data |-> <<>>,
     seen |-> 0, batches |-> 0, slept |-> 0, tried |-> <<>>, failed |-> FALSE,
     fault |-> "none", killed |-> FALSE, wrote |-> TRUE]

\* What the tables hold when the process starts.
StartLogs ==
    { {}, {Row(1, [type |-> "BUY", symbol |-> "A", quantity |-> 2,
                   price |-> <<1>>, timestamp |-> 1])} }
StartRegistries ==
    { [s \in Symbols |-> NoRow],
      [s \in Symbols |-> IF s = "A" THEN <<2>> ELSE <<1>>] }

\* "Build initial in-memory portfolio from persisted transactions"; quota is
\* the number of requests the run will handle, task the ingest task's start.
InitWith(quota, task) ==
    /\ txs \in StartLogs
    /\ instruments \in StartRegistries
    /\ price_history = <<>>
    /\ \E order \in SymbolOrders :
          portfolio = build_portfolio_update_from_lots(
                          compute_lots_from_db(txs), instruments, order)
    /\ bus = EmptyBus
    /\ subs = [c \in Clients |-> NoClient]
    /\ reqs = [r \in Slots |-> Idle]
    /\ ws = task
    /\ hist = [NoHist EXCEPT !.quota = quota]
    /\ lots_out = <<>>
    /\ LibAtRest

Init == InitWith(MaxReq, WsStart)

----------------------------------------------------------------------------
(* Request handlers.  A handler runs in a slot; each step is the code up   *)
(* to its next .await (a database statement takes effect at one instant),  *)
(* or one critical section of the snapshot mutex.  Statements that read    *)
(* are taken to succeed; statements that write succeed or fail (ok).       *)

Free(r) == reqs[r].pc \in {"idle", "done"}
CanStart(r) == Free(r) /\ hist.quota > 0
Started == [hist EXCEPT !.quota = @ - 1]

\* The handler of slot r has answered.
Done(op, sym, status) == [op |-> op, pc |-> "done", sym |-> sym, status |-> status]
\* The handler of slot r goes on to rebuild the snapshot.
Rebuilding(op, sym, status, arg) ==
    [op |-> op, pc |-> "lots", sym |-> sym, status |-> status, arg |-> arg,
     lots |-> <<>>, prices |-> <<>>]

\* POST /transactions: Uuid::new_v4(), the INSERT (its result is dropped).
add_transaction(r, d, i, ok) ==
    /\ CanStart(r)
    /\ \A row \in txs : row.id # i
    /\ txs' = IF ok THEN txs \cup {Row(i, d)} ELSE txs
    /\ reqs' = [reqs EXCEPT ![r] = Rebuilding("add_transaction", d.symbol, 201, Row(i, d))]
    /\ hist' = Started
    /\ UNCHANGED <<instruments, price_history, portfolio, bus, subs, ws, lots_out, lib>>

\* Variant: the result of the DELETE is dropped, as add_transaction drops
\* the result of its INSERT: the handler rebuilds and publishes either way.
clear_transactions_DropsResult(r, ok) ==
    /\ CanStart(r)
    /\ txs' = IF ok THEN {} ELSE txs
    /\ reqs' = [reqs EXCEPT ![r] =
                  Rebuilding("clear_transactions", "", IF ok THEN 204 ELSE 500, <<>>)]
    /\ hist' = Started
    /\ UNCHANGED <<instruments, price_history, portfolio, bus, subs, ws, lots_out, lib>>

\* DELETE /transactions: the DELETE and the match on its result.
clear_transactions(r, ok) ==
    /\ CanStart(r)
    /\ txs' = IF ok THEN {} ELSE txs
    /\ reqs' = [reqs EXCEPT ![r] =
                  IF ok THEN Rebuilding("clear_transactions", "", 204, <<>>)
                  ELSE Done("clear_transactions", "", 500)]
    /\ hist' = Started
    /\ UNCHANGED <<instruments, price_history, portfolio, bus, subs, ws, lots_out, lib>>

\* DELETE /instruments/:symbol: the replay and the guard on open positions.
delete_instrument(r, symbol) ==
    /\ CanStart(r)
    /\ LET refuse == has_qty(compute_lots_from_db(txs), symbol)
       IN  /\ reqs' = [reqs EXCEPT ![r] =
                         IF refuse THEN Done("delete_instrument", symbol, 409)
                         ELSE [op |-> "delete_instrument", pc |-> "delete",
                               sym |-> symbol, status |-> 0]]
           /\ hist' = [Started EXCEPT !.refused =
                         IF refuse THEN @ \cup {symbol} ELSE @]
    /\ UNCHANGED <<db, portfolio, bus, subs, ws, lots_out, lib>>

\* DELETE /instruments/:symbol: the DELETE and the match on its result.
delete_instrument_row(r, ok) ==
    /\ reqs[r].pc = "delete"
    /\ instruments' = IF ok THEN [instruments EXCEPT ![reqs[r].sym] = NoRow]
                      ELSE instruments
    /\ reqs' = [reqs EXCEPT ![r] =
                  IF ok THEN Rebuilding("delete_instrument", reqs[r].sym, 204, <<>>)
                  ELSE Done("delete_instrument", reqs[r].sym, 500)]
    /\ UNCHANGED <<txs, price_history, portfolio, bus, subs, ws, hist, lots_out, lib>>

\* POST /instruments/subscribe: 503 without an API key (the provider
\* configuration is left open here, has_key stands for it), else
\* INSERT ... ON CONFLICT DO NOTHING with the placeholder price 0.
subscribe_instrument(r, symbol, has_key, ok) ==
    /\ CanStart(r)
    /\ instruments' = IF has_key /\ ok /\ instruments[symbol] = NoRow
                      THEN [instruments EXCEPT ![symbol] = <<0>>]
                      ELSE instruments
    /\ reqs' = [reqs EXCEPT ![r] =
                  IF has_key THEN Rebuilding("subscribe_instrument", symbol, 201, <<>>)
                  ELSE Done("subscribe_instrument", symbol, 503)]
    /\ hist' = Started
    /\ UNCHANGED <<txs, price_history, portfolio, bus, subs, ws, lots_out, lib>>

\* let lots = compute_lots_from_db(&state.db).await;
rebuild_lots(r) ==
    /\ reqs[r].pc = "lots"
    /\ reqs' = [reqs EXCEPT ![r].lots = compute_lots_from_db(txs), ![r].pc = "prices"]
    /\ UNCHANGED <<db, portfolio, bus, subs, ws, hist, lots_out, lib>>

\* let prices = load_prices(&state.db).await;
load_prices(r) ==
    /\ reqs[r].pc = "prices"
    /\ reqs' = [reqs EXCEPT ![r].prices = instruments, ![r].pc = "publish"]
    /\ UNCHANGED <<db, portfolio, bus, subs, ws, hist, lots_out, lib>>

\* if let Ok(mut portfolio) = state.portfolio.lock() { build, store, send }
rebuild_publish(r, order) ==
    /\ reqs[r].pc = "publish"
    /\ StoreAndSend(build_portfolio_update_from_lots(reqs[r].lots, reqs[r].prices, order))
    /\ reqs' = [reqs EXCEPT ![r] = Done(reqs[r].op, reqs[r].sym, reqs[r].status)]
    /\ UNCHANGED <<db, subs, ws, lots_out, lib>>

\* POST /portfolio/positions, first critical section: push the position
\* (price 0) and recalculate the value.
add_position(r, symbol, quantity, average_cost) ==
    /\ CanStart(r)
    /\ portfolio' = recalc_portfolio_value(
           [portfolio EXCEPT !.positions =
               Append(@, PositionOf(symbol, quantity, PriceOrZero(average_cost), 0))])
    /\ reqs' = [reqs EXCEPT ![r] =
                  [op |-> "add_position", pc |-> "send", sym |-> symbol, status |-> 201]]
    /\ hist' = [Started EXCEPT !.cached = [ver |-> @.ver + 1, seq |-> 0]]
    /\ UNCHANGED <<db, bus, subs, ws, lots_out, lib>>

\* POST /portfolio/positions, second critical section: send the cached snapshot.
add_position_send(r) ==
    /\ reqs[r].pc = "send"
    /\ SendCached
    /\ reqs' = [reqs EXCEPT ![r] = Done("add_position", reqs[r].sym, 201)]
    /\ UNCHANGED <<db, subs, ws, lots_out, lib>>

\* DELETE /portfolio/positions/:id: drop the positions of that symbol,
\* recalculate if any was dropped, send in every case.
delete_position(r, position_id) ==
    /\ CanStart(r)
    /\ LET kept == SelectSeq(portfolio.positions, LAMBDA q : q.symbol # position_id)
           removed_count == Len(portfolio.positions) - Len(kept)
           after == IF removed_count > 0
                    THEN recalc_portfolio_value([portfolio EXCEPT !.positions = kept])
                    ELSE [portfolio EXCEPT !.positions = kept]
       IN  /\ portfolio' = after
           /\ bus' = BusAfterSend(after)
           /\ hist' = [HistAfterSend(after, removed_count > 0) EXCEPT !.quota = @ - 1]
    /\ reqs' = [reqs EXCEPT ![r] = Done("delete_position", position_id, 200)]
    /\ UNCHANGED <<db, subs, ws, lots_out, lib>>

\* PUT /portfolio/positions/:id: a placeholder that sends the cached snapshot.
update_position(r) ==
    /\ CanStart(r)
    /\ bus' = BusAfterSend(portfolio)
    /\ hist' = [HistAfterSend(portfolio, FALSE) EXCEPT !.quota = @ - 1]
    /\ reqs' = [reqs EXCEPT ![r] = Done("update_position", "", 200)]
    /\ UNCHANGED <<db, portfolio, subs, ws, lots_out, lib>>

\* Every step a handler in slot r can take.
Handler(r) ==
    \/ \E d \in TxRequests, i \in TxIds, ok \in BOOLEAN : add_transaction(r, d, i, ok)
    \/ \E ok \in BOOLEAN : clear_transactions(r, ok)
    \/ \E symbol \in Symbols : delete_instrument(r, symbol)
    \/ \E ok \in BOOLEAN : delete_instrument_row(r, ok)
    \/ \E symbol \in Symbols, has_key \in BOOLEAN, ok \in BOOLEAN :
          subscribe_instrument(r, symbol, has_key, ok)
    \/ rebuild_lots(r)
    \/ load_prices(r)
    \/ \E order \in SymbolOrders : rebuild_publish(r, order)
    \/ \E symbol \in Symbols, average_cost \in {NoPrice, <<1>>} :
          add_position(r, symbol, 2, average_cost)
    \/ add_position_send(r)
    \/ \E position_id \in Symbols : delete_position(r, position_id)
    \/ update_position(r)

----------------------------------------------------------------------------
(* GET /stream: stream_updates *)

\* let rx = state.tx.subscribe();  (the handler, before the stream is polled)
stream_subscribe(c) ==
    /\ subs[c].pc = "idle"
    /\ subs' = [subs EXCEPT ![c] =
                  [pc |-> "registered", next |-> bus.pos,
                   reg |-> [ver |-> hist.cached.ver, pos |-> bus.pos, sends |-> hist.sends],
                   events |-> <<>>]]
    /\ UNCHANGED <<db, portfolio, bus, reqs, ws, hist, lots_out, lib>>

\* The first poll of the stream: the initial snapshot of the cached portfolio.
stream_initial(c) ==
    /\ subs[c].pc = "registered"
    /\ subs' = [subs EXCEPT ![c].pc = "streaming",
                            ![c].events = <<[kind |-> "initial", seq |-> hist.cached.seq,
                                             ver |-> hist.cached.ver,
                                             value |-> portfolio.portfolio_value]>>]
    /\ UNCHANGED <<db, portfolio, bus, reqs, ws, hist, lots_out, lib>>

\* while let Some(Ok(update)) = rx.next().await: the next message, or
\* Err(Lagged) when its slot has been overwritten, which ends the loop.
stream_next(c) ==
    /\ subs[c].pc = "streaming"
    /\ subs[c].next < bus.pos
    /\ LET behind == bus.pos - subs[c].next
           m == bus.buf[Len(bus.buf) - behind + 1]
       IN  subs' = [subs EXCEPT ![c] =
                      IF behind > Capacity
                      THEN Ended("lagged")
                      ELSE [@ EXCEPT !.next = @ + 1,
                                     !.events = Append(@, [kind |-> "update", seq |-> m.seq,
                                                           ver |-> 0,
                                                           value |-> m.snap.portfolio_value])]]
    /\ UNCHANGED <<db, portfolio, bus, reqs, ws, hist, lots_out, lib>>

\* The client goes away: the stream and its Receiver are dropped.
stream_drop(c) ==
    /\ subs[c].pc \in {"registered", "streaming"}
    /\ subs' = [subs EXCEPT ![c] = Ended("closed")]
    /\ UNCHANGED <<db, portfolio, bus, reqs, ws, hist, lots_out, lib>>

Stream(c) ==
    \/ stream_subscribe(c)
    \/ stream_initial(c)
    \/ stream_next(c)
    \/ stream_drop(c)

----------------------------------------------------------------------------
(* The service: handlers in every slot, and the stream clients *)

Next ==
    \/ \E r \in Slots : Handler(r)
    \/ \E c \in Clients : Stream(c)

Spec == Init /\ [][Next]_vars

\* One handler at a time, no stream client.
NextSeq == Handler("r1")

SpecSeq == Init /\ [][NextSeq]_vars

\* Variant: the cached snapshot outlives the process.
restart_KeepsSnapshot ==
    /\ hist.boots < MaxRestarts
    /\ bus' = EmptyBus
    /\ subs' = [c \in Clients |-> NoClient]
    /\ reqs' = [r \in Slots |-> Idle]
    /\ hist' = [NoHist EXCEPT !.quota = hist.quota, !.boots = hist.boots + 1,
                              !.was = Len(portfolio.positions)]
    /\ UNCHANGED <<db, portfolio, ws, lots_out, lib>>

\* The process stops at any point (requests under way are lost with it) and
\* main runs again: a new channel, and the cached snapshot built from the
\* tables.
restart ==
    /\ hist.boots < MaxRestarts
    /\ \E order \in SymbolOrders :
          portfolio' = build_portfolio_update_from_lots(
                           compute_lots_from_db(txs), instruments, order)
    /\ bus' = EmptyBus
    /\ subs' = [c \in Clients |-> NoClient]
    /\ reqs' = [r \in Slots |-> Idle]
    /\ hist' = [NoHist EXCEPT !.quota = hist.quota, !.boots = hist.boots + 1,
                              !.was = Len(portfolio.positions)]
    /\ UNCHANGED <<db, ws, lots_out, lib>>

\* The handlers, one request at a time, in a process that can restart.
NextRestart == Handler("r1") \/ restart

SpecRestart == InitWith(MaxRace, WsStart) /\ [][NextRestart]_vars

\* Handlers in every slot, no stream client.
NextHandlers == \E r \in Slots : Handler(r)

SpecHandlers == InitWith(MaxRace, WsStart) /\ [][NextHandlers]_vars

\* The publishing steps of one handler at a time, and the stream clients.
Publisher(r) ==
    \/ \E d \in TxRequests : add_transaction(r, d, MaxTx, TRUE)
    \/ rebuild_lots(r)
    \/ load_prices(r)
    \/ \E order \in SymbolOrders : rebuild_publish(r, order)
    \/ \E position_id \in Symbols : delete_position(r, position_id)
    \/ update_position(r)

NextStream ==
    \/ Publisher("r1")
    \/ \E c \in Clients : Stream(c)

SpecStream == Init /\ [][NextStream]_vars

----------------------------------------------------------------------------
(* The ingest task: LiveFinnhubWs::run_loop.  Its AppState holds the pool  *)
(* only: it has neither the cached snapshot nor the bus.                    *)

TradePrices == {1, 2}
\* The trade records of the feed: A trades at both prices, B at one.
Trades == { t \in [s : Symbols, p : TradePrices] : t.s = "A" \/ t.p = 1 }
BatchSizes == {1, 2}
Frames == UNION { [1..n -> Trades] : n \in BatchSizes }

\* SELECT symbol FROM instruments ORDER BY symbol ASC
RECURSIVE SortedSymbols(_)
SortedSymbols(S) ==
    IF S = {} THEN <<>>
    ELSE LET least == CHOOSE x \in S : \A y \in S : x = y \/ (x = "A" /\ y = "B")
         IN  <<least>> \o SortedSymbols(S \ {least})

current_instrument_symbols == SortedSymbols({ x \in Symbols : instruments[x] # NoRow })

\* Variant: a failed connect goes on to read the socket.
ws_connect_ReadsAfterFailure(ok) ==
    /\ ws.pc = "connect"
    /\ ws' = IF ok THEN [ws EXCEPT !.pc = "symbols", !.backoff_secs = 1,
                                     !.slept = 0, !.tried = <<>>, !.fault = "none"]
             ELSE [ws EXCEPT !.pc = "recv", !.fault = "connect"]
    /\ UNCHANGED <<db, portfolio, bus, subs, reqs, hist, lots_out, lib>>

\* match connect_async(url).await: Ok resets the backoff, Err goes to the sleep.
ws_connect(ok) ==
    /\ ws.pc = "connect"
    /\ ws' = IF ok THEN [ws EXCEPT !.pc = "symbols", !.backoff_secs = 1,
                                     !.slept = 0, !.tried = <<>>, !.fault = "none"]
             ELSE [ws EXCEPT !.pc = "sleep", !.fault = "connect"]
    /\ UNCHANGED <<db, portfolio, bus, subs, reqs, hist, lots_out, lib>>

\* let syms = current_instrument_symbols(&state.db).await;
ws_symbols ==
    /\ ws.pc = "symbols"
    /\ LET syms == current_instrument_symbols
       IN  ws' = [ws EXCEPT !.syms = syms,
                            !.pc = IF syms = <<>> THEN "recv" ELSE "subscribe"]
    /\ UNCHANGED <<db, portfolio, bus, subs, reqs, hist, lots_out, lib>>

\* Variant: a failed send ends the subscribe loop.
ws_subscribe_StopsOnFailure(ok) ==
    /\ ws.pc = "subscribe"
    /\ ws' = [ws EXCEPT !.syms = IF ok THEN Tail(@) ELSE <<>>,
                        !.tried = Append(@, [s |-> Head(ws.syms), ok |-> ok]),
                        !.pc = IF Len(ws.syms) = 1 \/ ~ok THEN "recv" ELSE "subscribe"]
    /\ UNCHANGED <<db, portfolio, bus, subs, reqs, hist, lots_out, lib>>

\* ws.send(subscribe frame) for the next symbol; an Err is logged only.
ws_subscribe(ok) ==
    /\ ws.pc = "subscribe"
    /\ ws' = [ws EXCEPT !.syms = Tail(@),
                        !.tried = Append(@, [s |-> Head(ws.syms), ok |-> ok]),
                        !.pc = IF Len(ws.syms) = 1 THEN "recv" ELSE "subscribe"]
    /\ UNCHANGED <<db, portfolio, bus, subs, reqs, hist, lots_out, lib>>

\* ws.next() yields a Text frame that parses as a trade message with records.
ws_trades(data) ==
    /\ ws.pc = "recv"
    /\ ws.seen + Len(data) <= MaxTicks
    /\ ws' = [ws EXCEPT !.pc = "upsert", !.data = data, !.seen = @ + Len(data)]
    /\ UNCHANGED <<db, portfolio, bus, subs, reqs, hist, lots_out, lib>>

\* ws.next() yields a frame that is skipped: unparseable text, another type
\* of message, a ping.
ws_skipped ==
    /\ ws.pc = "recv"
    /\ ws.seen < MaxTicks
    /\ ws' = [ws EXCEPT !.seen = @ + 1, !.fault = "frame"]
    /\ UNCHANGED <<db, portfolio, bus, subs, reqs, hist, lots_out, lib>>

\* Variant: ON CONFLICT (symbol) DO NOTHING.
ws_upsert_KeepsPrice(ok) ==
    /\ ws.pc = "upsert"
    /\ instruments' = IF ok /\ instruments[Head(ws.data).s] = NoRow
                      THEN [instruments EXCEPT ![Head(ws.data).s] = <<Head(ws.data).p>>]
                      ELSE instruments
    /\ ws' = [ws EXCEPT !.pc = "history", !.failed = @ \/ ~ok, !.wrote = ok,
                        !.fault = IF ok THEN @ ELSE "write"]
    /\ UNCHANGED <<txs, price_history, portfolio, bus, subs, reqs, hist, lots_out, lib>>

\* INSERT INTO instruments ... ON CONFLICT (symbol) DO UPDATE SET price
ws_upsert(ok) ==
    /\ ws.pc = "upsert"
    /\ instruments' = IF ok THEN [instruments EXCEPT ![Head(ws.data).s] = <<Head(ws.data).p>>]
                      ELSE instruments
    /\ ws' = [ws EXCEPT !.pc = "history", !.failed = @ \/ ~ok, !.wrote = ok,
                        !.fault = IF ok THEN @ ELSE "write"]
    /\ UNCHANGED <<txs, price_history, portfolio, bus, subs, reqs, hist, lots_out, lib>>

\* The task after the INSERT INTO price_history: the next record of the
\* frame, or the next ws.next() after the last one.
AfterHistory(ok) ==
    IF Len(ws.data) = 1
    THEN [ws EXCEPT !.pc = "recv", !.data = <<>>, !.batches = @ + 1, !.wrote = ok,
                    !.failed = @ \/ ~ok, !.fault = IF ok THEN @ ELSE "write"]
    ELSE [ws EXCEPT !.pc = "upsert", !.data = Tail(@), !.wrote = ok,
                    !.failed = @ \/ ~ok, !.fault = IF ok THEN @ ELSE "write"]

\* Variant: a tick equal to a stored row is not stored again.
ws_history_Deduplicates(ok) ==
    /\ ws.pc = "history"
    /\ price_history' =
          IF ok /\ \A k \in 1 .. Len(price_history) : price_history[k] # Head(ws.data)
          THEN Append(price_history, Head(ws.data)) ELSE price_history
    /\ ws' = AfterHistory(ok)
    /\ UNCHANGED <<txs, instruments, portfolio, bus, subs, reqs, hist, lots_out, lib>>

\* Variant: a failed INSERT ends the session.
ws_history_BreaksOnFailure(ok) ==
    /\ ws.pc = "history"
    /\ price_history' = IF ok THEN Append(price_history, Head(ws.data)) ELSE price_history
    /\ ws' = IF ok THEN AfterHistory(ok)
             ELSE [ws EXCEPT !.pc = "sleep", !.data = <<>>, !.wrote = FALSE, !.failed = TRUE,
                             !.fault = "write"]
    /\ UNCHANGED <<txs, instruments, portfolio, bus, subs, reqs, hist, lots_out, lib>>

\* INSERT INTO price_history (symbol, price, ts) VALUES ($1, $2, NOW())
ws_history(ok) ==
    /\ ws.pc = "history"
    /\ price_history' = IF ok THEN Append(price_history, Head(ws.data)) ELSE price_history
    /\ ws' = AfterHistory(ok)
    /\ UNCHANGED <<txs, instruments, portfolio, bus, subs, reqs, hist, lots_out, lib>>

\* Variant: run_loop returns when the connection ends.
ws_disconnect_Returns ==
    /\ ws.pc = "recv"
    /\ ws' = [ws EXCEPT !.pc = "returned", !.fault = "close", !.killed = TRUE]
    /\ UNCHANGED <<db, portfolio, bus, subs, reqs, hist, lots_out, lib>>

\* ws.next() yields Close, an Err, or None: the while loop is left.
ws_disconnect ==
    /\ ws.pc = "recv"
    /\ ws' = [ws EXCEPT !.pc = "sleep", !.fault = "close", !.killed = TRUE]
    /\ UNCHANGED <<db, portfolio, bus, subs, reqs, hist, lots_out, lib>>

\* Variant: the backoff is not doubled.
ws_sleep_NoDoubling ==
    /\ ws.pc = "sleep"
    /\ ws' = [ws EXCEPT !.pc = "connect", !.slept = Min(ws.backoff_secs, 30)]
    /\ UNCHANGED <<db, portfolio, bus, subs, reqs, hist, lots_out, lib>>

\* sleep(backoff_secs.min(30)); backoff_secs = (backoff_secs * 2).min(30);
ws_sleep ==
    /\ ws.pc = "sleep"
    /\ ws' = [ws EXCEPT !.pc = "connect", !.slept = Min(ws.backoff_secs, 30),
                        !.backoff_secs = Min(ws.backoff_secs * 2, 30)]
    /\ UNCHANGED <<db, portfolio, bus, subs, reqs, hist, lots_out, lib>>

NextIngest ==
    \/ \E ok \in BOOLEAN : ws_connect(ok)
    \/ ws_symbols
    \/ \E ok \in BOOLEAN : ws_subscribe(ok)
    \/ \E data \in Frames : ws_trades(data)
    \/ ws_skipped
    \/ \E ok \in BOOLEAN : ws_upsert(ok)
    \/ \E ok \in BOOLEAN : ws_history(ok)
    \/ ws_disconnect
    \/ ws_sleep

\* The ingest task running against the database of a started service.
SpecIngest == InitWith(0, WsLoop) /\ [][NextIngest]_vars

\* The steps run_loop takes by itself: every .await of the loop other than
\* ws.next() completes (a connect and a statement return Ok or Err, a sleep
\* ends), so a task that is polled takes them.  What ws.next() yields, and
\* when, is the provider's choice.
IngestTask ==
    \/ \E ok \in BOOLEAN : ws_connect(ok)
    \/ ws_symbols
    \/ \E ok \in BOOLEAN : ws_subscribe(ok)
    \/ \E ok \in BOOLEAN : ws_upsert(ok)
    \/ \E ok \in BOOLEAN : ws_history(ok)
    \/ ws_sleep

\* SpecIngest with the task scheduled fairly.
SpecIngestFair == SpecIngest /\ WF_vars(IngestTask)

\* The ingest task next to the handlers that write the registry or clear
\* the log, one request at a time.
RegistryHandler(r) ==
    \/ \E ok \in BOOLEAN : clear_transactions(r, ok)
    \/ \E symbol \in Symbols : delete_instrument(r, symbol)
    \/ \E ok \in BOOLEAN : delete_instrument_row(r, ok)
    \/ \E symbol \in Symbols, has_key \in BOOLEAN, ok \in BOOLEAN :
          subscribe_instrument(r, symbol, has_key, ok)
    \/ rebuild_lots(r)
    \/ load_prices(r)
    \/ \E order \in SymbolOrders : rebuild_publish(r, order)

NextFeed == RegistryHandler("r1") \/ NextIngest

\* What the tick history holds when the process starts.
StartTicks == { <<>>, <<[s |-> "A", p |-> 1]>> }

\* A started service with one request to come and a feed that has
\* already delivered two frames, both skipped.
InitFeed ==
    /\ txs \in StartLogs
    /\ instruments \in StartRegistries
    /\ price_history \in StartTicks
    /\ \E order \in SymbolOrders :
          portfolio = build_portfolio_update_from_lots(
                          compute_lots_from_db(txs), instruments, order)
    /\ bus = EmptyBus
    /\ subs = [c \in Clients |-> NoClient]
    /\ reqs = [r \in Slots |-> Idle]
    /\ ws = [WsLoop EXCEPT !.seen = 2]
    /\ hist = [NoHist EXCEPT !.quota = 1]
    /\ lots_out = <<>>
    /\ LibAtRest

SpecFeed == InitFeed /\ [][NextFeed]_vars

----------------------------------------------------------------------------
(* The provider configuration, /admin/provider-config and GET /price-stream *)

Secrets == {"", "k1", "k2"}          \* secrets as stored: "" is "not set"
Typed == {" ", "k1", " k2 "}         \* secrets as an admin types them
\* str::trim
Trim(v) == CASE v = " " -> "" [] v = " k2 " -> "k2" [] OTHER -> v
\* Option::unwrap_or
UnwrapOr(o, default) == IF o = None THEN default ELSE o[1]

\* A row of table provider_config (api_url and ws_url are fixed texts).
ConfigRow(api_key, webhook_secret, key_at, secret_at, at) ==
    [api_key |-> api_key, webhook_secret |-> webhook_secret,
     api_key_updated_at |-> key_at, webhook_secret_updated_at |-> secret_at,
     updated_at |-> at]

\* ensure_provider_config_table and load_provider_config in main: a stored
\* row (its per-secret timestamps backfilled where the secret is set) is
\* loaded; without a row the configuration comes from the environment and
\* is inserted (the result of the INSERT is dropped).
StartProviders ==
    { [cfg |-> [api_key |-> k, webhook_secret |-> w],
       row |-> Some(ConfigRow(k, w, IF k = "" THEN None ELSE Some(0),
                              IF w = "" THEN None ELSE Some(0), 0)),
       env |-> [FINNHUB_API_KEY |-> ek, WEBHOOK_SECRET |-> ew], now |-> 0] :
         k \in Secrets, w \in Secrets, ek \in {"", "k1"}, ew \in {"", "k2"} }
    \cup
    { [cfg |-> [api_key |-> ek, webhook_secret |-> ew],
       row |-> IF ok THEN Some(ConfigRow(ek, ew, None, None, 0)) ELSE None,
       env |-> [FINNHUB_API_KEY |-> ek, WEBHOOK_SECRET |-> ew], now |-> 0] :
         ek \in {"", "k1"}, ew \in {"", "k2"}, ok \in BOOLEAN }

current_api_key ==
    IF provider.cfg.api_key # "" THEN provider.cfg.api_key
    ELSE provider.env.FINNHUB_API_KEY
current_webhook_secret ==
    IF provider.cfg.webhook_secret # "" THEN provider.cfg.webhook_secret
    ELSE provider.env.WEBHOOK_SECRET

\* PUT /admin/provider-config: each secret of the payload is trimmed and
\* written by its own UPDATE (which changes a row only if there is one, and
\* whose result is dropped), then the configuration in memory is replaced.
update_provider_config(r, api_key, webhook_secret, ok1, ok2) ==
    /\ CanStart(r)
    /\ LET t1 == provider.now + 1
           t2 == provider.now + 2
           row0 == provider.row
           row1 == IF api_key # None /\ ok1 /\ row0 # None
                   THEN Some([row0[1] EXCEPT !.api_key = Trim(api_key[1]),
                                             !.api_key_updated_at = Some(t1),
                                             !.updated_at = t1])
                   ELSE row0
           row2 == IF webhook_secret # None /\ ok2 /\ row1 # None
                   THEN Some([row1[1] EXCEPT !.webhook_secret = Trim(webhook_secret[1]),
                                             !.webhook_secret_updated_at = Some(t2),
                                             !.updated_at = t2])
                   ELSE row1
       IN  provider' =
             [provider EXCEPT
                !.cfg = [api_key |-> IF api_key # None THEN Trim(api_key[1]) ELSE @.api_key,
                         webhook_secret |-> IF webhook_secret # None
                                            THEN Trim(webhook_secret[1])
                                            ELSE @.webhook_secret],
                !.row = row2,
                !.now = t2]
    /\ reqs' = [reqs EXCEPT ![r] = Done("update_provider_config", "", 200)]
    /\ hist' = Started
    /\ UNCHANGED <<db, portfolio, bus, subs, ws, lots_out, lib_portfolio, call, mutex>>

\* Variant: the public configuration carries the webhook secret.
ProviderConfigPublic_WithSecret(cfg, row) ==
    [has_api_key |-> cfg.api_key # "",
     has_webhook_secret |-> cfg.webhook_secret # "",
     webhook_secret |-> cfg.webhook_secret,
     api_key_updated_at |->
        IF row = None THEN None
        ELSE IF row[1].api_key_updated_at # None THEN row[1].api_key_updated_at
        ELSE Some(row[1].updated_at),
     webhook_secret_updated_at |->
        IF row = None THEN None
        ELSE IF row[1].webhook_secret_updated_at # None
             THEN row[1].webhook_secret_updated_at
        ELSE Some(row[1].updated_at)]

\* The body of GET /admin/provider-config for the configuration cfg in
\* memory and the row of the table (api_url and ws_url are fixed texts):
\* has_* from the configuration, COALESCE(*_updated_at, updated_at) from
\* the row, None without a row.
ProviderConfigPublic(cfg, row) ==
    [has_api_key |-> cfg.api_key # "",
     has_webhook_secret |-> cfg.webhook_secret # "",
     api_key_updated_at |->
        IF row = None THEN None
        ELSE IF row[1].api_key_updated_at # None THEN row[1].api_key_updated_at
        ELSE Some(row[1].updated_at),
     webhook_secret_updated_at |->
        IF row = None THEN None
        ELSE IF row[1].webhook_secret_updated_at # None
             THEN row[1].webhook_secret_updated_at
        ELSE Some(row[1].updated_at)]

\* GET /admin/provider-config
get_provider_config(r) ==
    /\ CanStart(r)
    /\ reqs' = [reqs EXCEPT ![r] =
                  [op |-> "get_provider_config", pc |-> "done", sym |-> "", status |-> 200,
                   body |-> ProviderConfigPublic(provider.cfg, provider.row)]]
    /\ hist' = Started
    /\ UNCHANGED <<db, portfolio, bus, subs, ws, lots_out, lib>>

\* Variant: a request without a secret parameter passes.
Unauthorized_UnlessNoQuery(expected, header, secret) ==
    /\ expected # ""
    /\ UnwrapOr(header, "") # expected
    /\ secret # None
    /\ UnwrapOr(secret, "") # expected

\* if !expected.is_empty() { ... if provided_header != expected &&
\* provided_query != expected { return 401 } }
Unauthorized(expected, header, secret) ==
    /\ expected # ""
    /\ UnwrapOr(header, "") # expected
    /\ UnwrapOr(secret, "") # expected

\* GET /price-stream up to the response: the check of the secret (401),
\* of the API key (503), then the SSE response whose stream is still to be
\* polled.  header is the x-webhook-secret header, secret the query
\* parameter, symbols the parsed symbols parameter.
price_stream(r, header, secret, symbols) ==
    /\ CanStart(r)
    /\ reqs' = [reqs EXCEPT ![r] =
                  [op |-> "price_stream", sym |-> "", header |-> header, secret |-> secret,
                   symbols |-> symbols, sent |-> <<>>, events |-> 0, seen |-> 0,
                   pc |-> IF Unauthorized(current_webhook_secret, header, secret)
                             \/ current_api_key = ""
                          THEN "done" ELSE "connect",
                   status |-> IF Unauthorized(current_webhook_secret, header, secret)
                              THEN 401
                              ELSE IF current_api_key = "" THEN 503 ELSE 200]]
    /\ hist' = Started
    /\ UNCHANGED <<db, portfolio, bus, subs, ws, lots_out, lib>>

\* The stream is polled: connect_async, then a subscribe frame per symbol
\* (results dropped) and the "subscribed" event; or the error event, after
\* which the stream ends.
price_stream_connect(r, ok) ==
    /\ reqs[r].op = "price_stream"
    /\ reqs[r].pc = "connect"
    /\ reqs' = [reqs EXCEPT ![r] =
                  IF ok THEN [@ EXCEPT !.pc = "recv", !.sent = reqs[r].symbols,
                                       !.events = @ + 1]
                  ELSE Done("price_stream", "", 200)]
    /\ UNCHANGED <<db, portfolio, bus, subs, ws, hist, lots_out, lib>>

\* One record of a trade frame: the INSERT INTO price_history, the upsert
\* of the registry price (both results dropped), the tick event.
price_stream_record(r, t, ok_tick, ok_price) ==
    /\ reqs[r].op = "price_stream"
    /\ reqs[r].pc = "recv"
    /\ reqs[r].seen < MaxProxyTicks
    /\ price_history' = IF ok_tick THEN Append(price_history, t) ELSE price_history
    /\ instruments' = IF ok_price THEN [instruments EXCEPT ![t.s] = <<t.p>>] ELSE instruments
    /\ reqs' = [reqs EXCEPT ![r].seen = @ + 1, ![r].events = @ + 1]
    /\ UNCHANGED <<txs, portfolio, bus, subs, ws, hist, lots_out, lib>>

\* Close, an Err or the end of the provider's stream, or the client going
\* away: the stream ends.
price_stream_end(r) ==
    /\ reqs[r].op = "price_stream"
    /\ reqs[r].pc \in {"connect", "recv"}
    /\ reqs' = [reqs EXCEPT ![r] = Done("price_stream", "", 200)]
    /\ UNCHANGED <<db, portfolio, bus, subs, ws, hist, lots_out, lib>>

\* The requests that read or write the provider configuration.
ConfigHandler(r) ==
    \/ \E api_key \in {None} \cup {Some(v) : v \in Typed},
          webhook_secret \in {None} \cup {Some(v) : v \in Typed},
          ok1 \in BOOLEAN, ok2 \in BOOLEAN :
          update_provider_config(r, api_key, webhook_secret, ok1, ok2)
    \/ get_provider_config(r)

\* GET /price-stream and the stream of its response.
ProxyHandler(r) ==
    \/ \E header \in {None} \cup {Some(v) : v \in Secrets},
          secret \in {None} \cup {Some(v) : v \in Secrets \ {""}},
          symbols \in {<<>>, <<"A">>} :
          price_stream(r, header, secret, symbols)
    \/ \E ok \in BOOLEAN : price_stream_connect(r, ok)
    \/ \E t \in Trades, ok_tick \in BOOLEAN, ok_price \in BOOLEAN :
          price_stream_record(r, t, ok_tick, ok_price)
    \/ price_stream_end(r)

NextConfig == ConfigHandler("r1")
NextProxy == ProxyHandler("r1")

\* A started service with any stored or inherited provider configuration,
\* and quota requests to come.
InitConfig(quota) ==
    /\ txs = {}
    /\ instruments = [s \in Symbols |-> NoRow]
    /\ price_history = <<>>
    /\ portfolio = build_portfolio_update_from_lots(
                       compute_lots_from_db({}), instruments, <<"A", "B">>)
    /\ bus = EmptyBus
    /\ subs = [c \in Clients |-> NoClient]
    /\ reqs = [r \in Slots |-> Idle]
    /\ ws = WsStart
    /\ hist = [NoHist EXCEPT !.quota = quota]
    /\ lots_out = <<>>
    /\ provider \in StartProviders
    /\ lib_portfolio = NoPortfolio
    /\ call = NoCall
    /\ mutex = NoMutex

\* /admin/provider-config, one request at a time.
SpecConfig == InitConfig(MaxRace) /\ [][NextConfig]_vars

\* One GET /price-stream request under any configuration.
SpecProxy == InitConfig(1) /\ [][NextProxy]_vars

----------------------------------------------------------------------------
(* services::portfolio::Portfolio *)

PositionIds == 1 .. MaxAdds + 1      \* ids a caller can name, one never minted
Quantities == {2, 4}
Costs == {None, Some(1)}
Clock == 0 .. MaxClock               \* what Utc::now() can return

\* self.positions.iter().position(|p| p.id == position_id): the first index
\* with that id, 0 if there is none.
IndexOfId(positions, position_id) ==
    IF \E k \in 1 .. Len(positions) : positions[k].id = position_id
    THEN CHOOSE k \in 1 .. Len(positions) :
            /\ positions[k].id = position_id
            /\ \A j \in 1 .. k - 1 : positions[j].id # position_id
    ELSE 0

\* The sequence without its element at index.
RemoveAt(positions, index) ==
    SubSeq(positions, 1, index - 1) \o SubSeq(positions, index + 1, Len(positions))

\* Portfolio::add_position: a new id, the position pushed, the id returned.
Portfolio_add_position(instrument_id, quantity, average_cost) ==
    /\ lib_portfolio.adds < MaxAdds
    /\ \E now \in Clock :
          LET position_id == lib_portfolio.minted + 1
          IN  lib_portfolio' =
                [lib_portfolio EXCEPT
                   !.positions = Append(@, [id |-> position_id, instrument_id |-> instrument_id,
                                            quantity |-> quantity,
                                            average_cost |-> average_cost]),
                   !.minted = position_id,
                   !.adds = @ + 1,
                   !.updated_at = now,
                   !.last = [op |-> "add_position", result |-> position_id]]
    /\ UNCHANGED <<db, portfolio, bus, subs, reqs, ws, hist, lots_out, provider, call, mutex>>

\* Variant: updated_at is set before the position is looked up.
Portfolio_update_position_StampsFirst(position_id, quantity) ==
    /\ \E now \in Clock :
          LET index == IndexOfId(lib_portfolio.positions, position_id)
          IN  lib_portfolio' =
                IF index = 0
                THEN [lib_portfolio EXCEPT
                        !.updated_at = now,
                        !.last = [op |-> "update_position", id |-> position_id,
                                  quantity |-> quantity, result |-> "Err"]]
                ELSE [lib_portfolio EXCEPT
                        !.positions[index].quantity = quantity,
                        !.updated_at = now,
                        !.last = [op |-> "update_position", id |-> position_id,
                                  quantity |-> quantity, result |-> "Ok"]]
    /\ UNCHANGED <<db, portfolio, bus, subs, reqs, ws, hist, lots_out, provider, call, mutex>>

\* Portfolio::update_position: Err when no position has the id.
Portfolio_update_position(position_id, quantity) ==
    /\ LET index == IndexOfId(lib_portfolio.positions, position_id)
       IN  IF index = 0
           THEN lib_portfolio' =
                  [lib_portfolio EXCEPT
                     !.last = [op |-> "update_position", id |-> position_id,
                               quantity |-> quantity, result |-> "Err"]]
           ELSE \E now \in Clock :
                  lib_portfolio' =
                    [lib_portfolio EXCEPT
                       !.positions[index].quantity = quantity,
                       !.updated_at = now,
                       !.last = [op |-> "update_position", id |-> position_id,
                                 quantity |-> quantity, result |-> "Ok"]]
    /\ UNCHANGED <<db, portfolio, bus, subs, reqs, ws, hist, lots_out, provider, call, mutex>>

\* Variant: the last position is removed.
Portfolio_remove_position_Last(position_id) ==
    /\ LET index == IndexOfId(lib_portfolio.positions, position_id)
       IN  IF index = 0
           THEN lib_portfolio' =
                  [lib_portfolio EXCEPT
                     !.last = [op |-> "remove_position", id |-> position_id,
                               result |-> "Err"]]
           ELSE \E now \in Clock :
                  lib_portfolio' =
                    [lib_portfolio EXCEPT
                       !.positions = RemoveAt(@, Len(@)),
                       !.removes = @ + 1,
                       !.updated_at = now,
                       !.last = [op |-> "remove_position", id |-> position_id,
                                 result |-> "Ok"]]
    /\ UNCHANGED <<db, portfolio, bus, subs, reqs, ws, hist, lots_out, provider, call, mutex>>

\* Portfolio::remove_position: Err when no position has the id.
Portfolio_remove_position(position_id) ==
    /\ LET index == IndexOfId(lib_portfolio.positions, position_id)
       IN  IF index = 0
           THEN lib_portfolio' =
                  [lib_portfolio EXCEPT
                     !.last = [op |-> "remove_position", id |-> position_id,
                               result |-> "Err"]]
           ELSE \E now \in Clock :
                  lib_portfolio' =
                    [lib_portfolio EXCEPT
                       !.positions = RemoveAt(@, index),
                       !.removes = @ + 1,
                       !.updated_at = now,
                       !.last = [op |-> "remove_position", id |-> position_id,
                                 result |-> "Ok"]]
    /\ UNCHANGED <<db, portfolio, bus, subs, reqs, ws, hist, lots_out, provider, call, mutex>>

\* Portfolio::get_total_positions
get_total_positions == Len(lib_portfolio.positions)

NextPortfolio ==
    \/ \E instrument_id \in Symbols, quantity \in Quantities, average_cost \in Costs :
          Portfolio_add_position(instrument_id, quantity, average_cost)
    \/ \E position_id \in PositionIds, quantity \in Quantities :
          Portfolio_update_position(position_id, quantity)
    \/ \E position_id \in PositionIds : Portfolio_remove_position(position_id)

\* A new Portfolio; the service is not running.
InitPortfolio ==
    /\ txs = {}
    /\ instruments = [s \in Symbols |-> NoRow]
    /\ price_history = <<>>
    /\ portfolio = [portfolio_value |-> 0, positions |-> <<>>]
    /\ bus = EmptyBus
    /\ subs = [c \in Clients |-> NoClient]
    /\ reqs = [r \in Slots |-> Idle]
    /\ ws = WsStart
    /\ hist = NoHist
    /\ lots_out = <<>>
    /\ LibAtRest

SpecPortfolio == InitPortfolio /\ [][NextPortfolio]_vars

----------------------------------------------------------------------------
(* f64 arithmetic of the library (services::risk, services::portfolio,
   models).  An f64 is a whole number of the smallest positive value of
   the format, with at most MantissaBits significant bits; every operation
   gives the representable value nearest to the exact result, ties to the
   even mantissa, as IEEE 754 does.  NaN and the infinities are left out:
   the values of the model stay finite. *)

One == 1024                          \* 1.0, in units of the smallest positive value

RECURSIVE Pow2(_)
Pow2(n) == IF n = 0 THEN 1 ELSE 2 * Pow2(n - 1)

\* The spacing of the representable values around num / den > 0.
RECURSIVE Ulp(_, _, _)
Ulp(num, den, u) == IF num \div den < u * Pow2(MantissaBits) THEN u ELSE Ulp(num, den, 2 * u)

\* num / den >= 0 rounded to nearest, ties to even.
RoundPos(num, den) ==
    LET u == Ulp(num, den, 1)
        q == num \div (u * den)
        r == num - q * u * den
    IN  IF 2 * r < u * den THEN q * u
        ELSE IF 2 * r > u * den THEN (q + 1) * u
        ELSE IF q % 2 = 0 THEN q * u ELSE (q + 1) * u

\* num / den rounded, den > 0.
Round(num, den) == IF num >= 0 THEN RoundPos(num, den) ELSE 0 - RoundPos(0 - num, den)

F64(n) == Round(n * One, 1)                  \* n as f64
FAdd(a, b) == Round(a + b, 1)
FSub(a, b) == Round(a - b, 1)
FMul(a, b) == Round(a * b, One)
FDiv(a, b) == IF b > 0 THEN Round(a * One, b) ELSE Round(0 - a * One, 0 - b)   \* b # 0
AsUsize(a) == IF a <= 0 THEN 0 ELSE a \div One   \* as usize: toward zero, negative to 0

\* iter().sum::<f64>(): the elements added one by one, from the left.
RECURSIVE FSum(_, _)
FSum(acc, values) == IF values = <<>> THEN acc ELSE FSum(FAdd(acc, Head(values)), Tail(values))

\* sort_by(|a, b| a.partial_cmp(b).unwrap()): ascending.
RECURSIVE Ascending(_)
Ascending(values) ==
    IF values = <<>> THEN <<>>
    ELSE LET k == CHOOSE i \in 1 .. Len(values) :
                    /\ \A j \in 1 .. Len(values) : values[i] <= values[j]
                    /\ \A j \in 1 .. i - 1 : values[j] # values[i]
         IN  <<values[k]>> \o Ascending(SubSeq(values, 1, k - 1) \o SubSeq(values, k + 1, Len(values)))

----------------------------------------------------------------------------
(* services::risk::RiskEngine *)

\* RiskEngine::calculate_var
var_of(confidence_level, returns) ==
    IF returns = <<>> THEN "Err"
    ELSE LET sorted_returns == Ascending(returns)
             index == AsUsize(FMul(FSub(One, confidence_level), F64(Len(returns))))
         IN  0 - sorted_returns[Min(index, Len(sorted_returns) - 1) + 1]

\* RiskEngine::calculate_expected_shortfall
expected_shortfall_of(confidence_level, returns) ==
    IF returns = <<>> THEN "Err"
    ELSE LET sorted_returns == Ascending(returns)
             cutoff_index == AsUsize(FMul(FSub(One, confidence_level), F64(Len(returns))))
             tail_returns == SubSeq(sorted_returns, 1, Min(cutoff_index + 1, Len(sorted_returns)))
         IN  IF tail_returns = <<>> THEN 0
             ELSE FDiv(0 - FSum(0, tail_returns), F64(Len(tail_returns)))

calculate_var ==
    /\ call.fn = "risk"
    /\ call.var = None
    /\ call' = [call EXCEPT !.var = Some(var_of(call.confidence_level, call.returns))]
    /\ UNCHANGED <<db, portfolio, bus, subs, reqs, ws, hist, lots_out, provider, lib_portfolio, mutex>>

calculate_expected_shortfall ==
    /\ call.fn = "risk"
    /\ call.es = None
    /\ call' = [call EXCEPT !.es = Some(expected_shortfall_of(call.confidence_level,
                                                               call.returns))]
    /\ UNCHANGED <<db, portfolio, bus, subs, reqs, ws, hist, lots_out, provider, lib_portfolio, mutex>>

NextRisk == calculate_var \/ calculate_expected_shortfall

\* Confidence levels in (0, 1): 1/1024, 1/16, 1/2, 15/16.
ConfidenceLevels == {Round(1, 1), Round(64, 1), Round(512, 1), Round(960, 1)}
\* Returns between -0.05 and 0.05, each an f64.
ReturnValues == { Round(v, 1) : v \in {-46, -22, -3, 0, 26, 50} }
ReturnVectors == UNION { [1 .. n -> ReturnValues] : n \in 1 .. MaxReturns }

\* Everything at rest but the variable call.
AtRestBut ==
    /\ txs = {}
    /\ instruments = [s \in Symbols |-> NoRow]
    /\ price_history = <<>>
    /\ portfolio = [portfolio_value |-> 0, positions |-> <<>>]
    /\ bus = EmptyBus
    /\ subs = [c \in Clients |-> NoClient]
    /\ reqs = [r \in Slots |-> Idle]
    /\ ws = WsStart
    /\ hist = NoHist
    /\ lots_out = <<>>
    /\ provider = NoProvider
    /\ lib_portfolio = NoPortfolio
    /\ mutex = NoMutex

\* A RiskEngine and a vector of returns, neither function called yet.
InitRisk ==
    /\ AtRestBut
    /\ \E confidence_level \in ConfidenceLevels, returns \in ReturnVectors :
          call = [fn |-> "risk", confidence_level |-> confidence_level, returns |-> returns,
                  var |-> None, es |-> None]

SpecRisk == InitRisk /\ [][NextRisk]_vars

----------------------------------------------------------------------------
(* services::portfolio::PortfolioValuationService.  The valuator is a
   parameter of value_portfolio: its result for each instrument is an
   input here, a value or an Err.  The risk metrics of the result are not
   part of this state. *)

Hundred == F64(100)

\* An Err of the library, and whether a result is one.
Err(kind) == [err |-> kind]
IsErr(result) == "err" \in DOMAIN result

\* Variant: the share of the total, not in percent.
WeightOf_Share(position_total_value, total_value) ==
    IF total_value # 0 THEN FDiv(position_total_value, total_value) ELSE 0

\* position_val.weight, after the total is known.
WeightOf(position_total_value, total_value) ==
    IF total_value # 0 THEN FMul(FDiv(position_total_value, total_value), Hundred) ELSE 0

\* One turn of the loop over portfolio.positions: the PositionValuation
\* pushed (its weight still 0), or the Err the function returns with.
ValuePosition(position, instruments_by_id) ==
    LET instrument == instruments_by_id[position.instrument_id]
    IN  IF instrument = None THEN Err("Portfolio")
        ELSE IF instrument[1].value = None THEN Err("valuator")
        ELSE LET unit_value == FDiv(instrument[1].value[1], instrument[1].notional)
                 position_total_value == FMul(unit_value, position.quantity)
                 total_cost == IF position.average_cost = None THEN 0
                               ELSE FMul(position.average_cost[1], position.quantity)
                 pnl == FSub(position_total_value, total_cost)
                 pnl_pct == IF total_cost # 0 THEN FMul(FDiv(pnl, total_cost), Hundred) ELSE 0
             IN  [position_id |-> position.id,
                  instrument_id |-> position.instrument_id,
                  quantity |-> position.quantity,
                  unit_value |-> unit_value,
                  total_value |-> position_total_value,
                  weight |-> 0,
                  pnl |-> IF position.average_cost = None THEN None ELSE Some(pnl),
                  pnl_percentage |-> IF position.average_cost = None THEN None
                                     ELSE Some(pnl_pct)]

\* The loop over the positions: an Err ends it.
RECURSIVE ValuePositions(_, _, _)
ValuePositions(positions, instruments_by_id, position_valuations) ==
    IF positions = <<>> THEN [pushed |-> position_valuations]
    ELSE LET v == ValuePosition(Head(positions), instruments_by_id)
         IN  IF IsErr(v) THEN v
             ELSE ValuePositions(Tail(positions), instruments_by_id,
                                 Append(position_valuations, v))

\* The sums of calculate_portfolio_performance: [total_cost, total_value,
\* has_cost_data] after the positions.
RECURSIVE PerformanceSums(_, _)
PerformanceSums(positions, acc) ==
    IF positions = <<>> THEN acc
    ELSE LET position == Head(positions)
             total_value == FAdd(acc.total_value, position.total_value)
         IN  PerformanceSums(Tail(positions),
                IF position.pnl # None
                THEN [total_cost |-> FAdd(acc.total_cost,
                                          FSub(position.total_value, position.pnl[1])),
                      total_value |-> total_value,
                      has_cost_data |-> TRUE]
                ELSE [acc EXCEPT !.total_value = total_value])

\* PortfolioValuationService::calculate_portfolio_performance
calculate_portfolio_performance(positions) ==
    IF positions = <<>> THEN None
    ELSE LET sums == PerformanceSums(positions, [total_cost |-> 0, total_value |-> 0,
                                                 has_cost_data |-> FALSE])
         IN  IF ~sums.has_cost_data \/ sums.total_cost = 0 THEN None
             ELSE LET total_return == FSub(sums.total_value, sums.total_cost)
                  IN  Some([total_return |-> total_return,
                            total_return_percentage |->
                                FMul(FDiv(total_return, sums.total_cost), Hundred)])

\* PortfolioValuationService::value_portfolio, as a function.
PortfolioValuationOf(positions, instruments_by_id) ==
    LET loop == ValuePositions(positions, instruments_by_id, <<>>)
        valued == loop.pushed
    IN  IF IsErr(loop) THEN loop
        ELSE LET total_value == FSum(0, [k \in 1 .. Len(valued) |-> valued[k].total_value])
                 position_valuations ==
                    [k \in 1 .. Len(valued) |->
                        [valued[k] EXCEPT !.weight = WeightOf(valued[k].total_value,
                                                               total_value)]]
             IN  [total_value |-> total_value,
                  positions |-> position_valuations,
                  performance |-> calculate_portfolio_performance(position_valuations)]

value_portfolio ==
    /\ call.fn = "value_portfolio"
    /\ call.result = None
    /\ call' = [call EXCEPT !.result = Some(PortfolioValuationOf(call.positions,
                                                                 call.instruments))]
    /\ UNCHANGED <<db, portfolio, bus, subs, reqs, ws, hist, lots_out, provider, lib_portfolio, mutex>>

NextValue == value_portfolio

\* The positions of a Portfolio: ids as add_position gives them, long and
\* short quantities, with and without an average cost.
PositionInputs ==
    [instrument_id : Symbols, quantity : {F64(1), F64(2), 0 - F64(1)},
     average_cost : {None, Some(F64(1)), Some(0)}]
PortfolioInputs ==
    UNION { { [k \in 1 .. n |-> [id |-> k] @@ f[k]] : f \in [1 .. n -> PositionInputs] } :
            n \in 0 .. MaxPositions }
\* The instruments map with what the valuator returns for each, Some value
\* for an Ok and None for an Err: A is in the map, B is missing, fails to
\* value, or has a value.
InstrumentInputs ==
    { [A |-> Some([value |-> Some(v), notional |-> n]), B |-> b] :
        v \in {F64(1), F64(3)}, n \in {F64(1), F64(2)},
        b \in {None, Some([value |-> None, notional |-> F64(1)]),
               Some([value |-> Some(F64(3)), notional |-> F64(1)])} }

InitValue ==
    /\ AtRestBut
    /\ \E positions \in PortfolioInputs, instruments_by_id \in InstrumentInputs :
          call = [fn |-> "value_portfolio", positions |-> positions,
                  instruments |-> instruments_by_id, result |-> None]

SpecValue == InitValue /\ [][NextValue]_vars

----------------------------------------------------------------------------
(* models: BlackScholesModel and MonteCarloModel, the two Valuators.
   An f64 of a result is Finite(n), NaN, or Formula: the value of the
   closed formula or of the simulation at a time to expiry > 0, which
   takes ln, exp, sqrt, the normal distribution or random draws and is not
   evaluated here.  time_to_expiry stands for (opt.expiry - now) in years.
   overflow_checks is the build: on in the dev and test profiles of cargo,
   off in the release profile. *)

Finite(n) == [k |-> "finite", v |-> n]
NaN == [k |-> "nan", v |-> 0]
Formula == [k |-> "formula", v |-> 0]
Panic == [panic |-> "attempt to subtract with overflow"]

\* The product of a result by a quantity.
TimesQuantity(x, quantity) == IF x.k = "finite" THEN Finite(FMul(x.v, quantity)) ELSE x

\* Variant: the difference, without the floor at 0.
Intrinsic_NoFloor(option_type, spot, strike) ==
    IF option_type = "Call" THEN FSub(spot, strike) ELSE FSub(strike, spot)

\* (spot - strike).max(0.0) for a Call, (strike - spot).max(0.0) for a Put.
Intrinsic(option_type, spot, strike) ==
    IF option_type = "Call" THEN Max(FSub(spot, strike), 0) ELSE Max(FSub(strike, spot), 0)

\* BlackScholesModel::black_scholes_price
black_scholes_price(spot, strike, time_to_expiry, option_type) ==
    IF time_to_expiry <= 0 THEN Finite(Intrinsic(option_type, spot, strike)) ELSE Formula

AllGreeks(x) == [delta |-> x, gamma |-> x, theta |-> x, vega |-> x, rho |-> x]

\* BlackScholesModel::calculate_greeks_bs
calculate_greeks_bs(time_to_expiry) ==
    IF time_to_expiry <= 0 THEN AllGreeks(Some(Finite(0))) ELSE AllGreeks(Some(Formula))

\* <BlackScholesModel as Valuator>::value
BlackScholesModel_value(instrument, context) ==
    IF instrument.type = "Option"
    THEN IF context.spot_price = None \/ context.volatility = None THEN Err("MarketData")
         ELSE LET price == black_scholes_price(context.spot_price[1], instrument.strike,
                                               instrument.time_to_expiry,
                                               instrument.option_type)
              IN  [value |-> TimesQuantity(price, instrument.quantity),
                   greeks |-> Some(calculate_greeks_bs(instrument.time_to_expiry))]
    ELSE IF instrument.type = "Stock"
    THEN IF context.spot_price = None THEN Err("MarketData")
         ELSE [value |-> Finite(FMul(context.spot_price[1], instrument.quantity)),
               greeks |-> None]
    ELSE Err("PricingModel")

\* <BlackScholesModel as Valuator>::calculate_greeks
BlackScholesModel_calculate_greeks(instrument, context) ==
    IF instrument.type = "Option"
    THEN IF context.spot_price = None \/ context.volatility = None THEN Err("MarketData")
         ELSE calculate_greeks_bs(instrument.time_to_expiry)
    ELSE AllGreeks(None)

\* payoffs.iter().sum::<f64>() / payoffs.len() as f64 when every path ends at
\* the spot price: no payoff gives 0.0 / 0.0.
AveragePayoff(payoff, num_simulations) ==
    IF num_simulations = 0 THEN NaN
    ELSE Finite(FDiv(FSum(0, [i \in 1 .. num_simulations |-> payoff]), F64(num_simulations)))

\* <MonteCarloModel as Valuator>::value.  Without a time step a path is the
\* spot price alone; the discount factor is exp(0) = 1 when the rate or the
\* time to expiry is 0.  payoffs.len() - 1 is a usize subtraction.
MonteCarloModel_value(model, instrument, context, overflow_checks) ==
    IF instrument.type = "Option"
    THEN IF context.spot_price = None \/ context.volatility = None THEN Err("MarketData")
         ELSE LET average_payoff ==
                     IF model.num_simulations = 0 THEN NaN
                     ELSE IF model.time_steps = 0
                     THEN AveragePayoff(Intrinsic(instrument.option_type,
                                                  context.spot_price[1], instrument.strike),
                                        model.num_simulations)
                     ELSE Formula
                  discounted_value ==
                     IF average_payoff.k = "finite"
                        /\ FMul(0 - context.risk_free_rate, instrument.time_to_expiry) # 0
                     THEN Formula ELSE average_payoff
              IN  IF model.num_simulations = 0 /\ overflow_checks THEN Panic
                  ELSE [value |-> TimesQuantity(discounted_value, instrument.quantity),
                        greeks |-> None]
    ELSE Err("PricingModel")

\* <MonteCarloModel as Valuator>::calculate_greeks
MonteCarloModel_calculate_greeks(instrument, context) == AllGreeks(None)

\* valuator.value(instrument, context)
Valuator_value ==
    /\ call.fn = "kernel"
    /\ call.value = None
    /\ call' = [call EXCEPT !.value = Some(
                  IF call.model.kind = "BlackScholes"
                  THEN BlackScholesModel_value(call.instrument, call.context)
                  ELSE MonteCarloModel_value(call.model, call.instrument, call.context,
                                             call.overflow_checks))]
    /\ UNCHANGED <<db, portfolio, bus, subs, reqs, ws, hist, lots_out, provider, lib_portfolio, mutex>>

\* valuator.calculate_greeks(instrument, context)
Valuator_calculate_greeks ==
    /\ call.fn = "kernel"
    /\ call.greeks = None
    /\ call' = [call EXCEPT !.greeks = Some(
                  IF call.model.kind = "BlackScholes"
                  THEN BlackScholesModel_calculate_greeks(call.instrument, call.context)
                  ELSE MonteCarloModel_calculate_greeks(call.instrument, call.context))]
    /\ UNCHANGED <<db, portfolio, bus, subs, reqs, ws, hist, lots_out, provider, lib_portfolio, mutex>>

NextKernel == Valuator_value \/ Valuator_calculate_greeks

ModelInputs ==
    {[kind |-> "BlackScholes", num_simulations |-> 0, time_steps |-> 0]}
       \cup [kind : {"MonteCarlo"}, num_simulations : 0 .. MaxSimulations,
             time_steps : 0 .. MaxSteps]
\* Options before, at and after their expiry, a stock and a bond; quantity
\* is the notional of the instrument.
KernelInstruments ==
    [type : {"Option"}, option_type : {"Call", "Put"}, strike : {F64(1), F64(2)},
     quantity : {F64(1), F64(2)}, time_to_expiry : {0 - F64(1), 0, F64(1)}]
       \cup [type : {"Stock", "Bond"}, option_type : {"Call"}, strike : {F64(1)},
             quantity : {F64(1), F64(2)}, time_to_expiry : {0}]
MarketContexts ==
    [risk_free_rate : {0, One \div 16}, dividend_yield : {None, Some(0)},
     volatility : {None, Some(0), Some(One \div 4)},
     spot_price : {None, Some(F64(1)), Some(F64(3))}]

InitKernel ==
    /\ AtRestBut
    /\ \E model \in ModelInputs, instrument \in KernelInstruments,
          context \in MarketContexts, overflow_checks \in BOOLEAN :
          call = [fn |-> "kernel", model |-> model, instrument |-> instrument,
                  context |-> context, overflow_checks |-> overflow_checks,
                  value |-> None, greeks |-> None]

SpecKernel == InitKernel /\ [][NextKernel]_vars

----------------------------------------------------------------------------
(* The snapshot mutex, AppState.portfolio: std::sync::Mutex.  Here a task
   is followed event by event, not await by await: a handler is the
   sequence of its suspension points (await), of its lock() and of the end
   of the guard's scope (unlock), with the code in between (sync).  exit
   marks an await after which the handler can return early; back is the
   event a loop goes back to.  A thread that calls lock() while the mutex
   is held waits for it. *)

Await == [e |-> "await", exit |-> FALSE, back |-> 0]
AwaitOrReturn == [e |-> "await", exit |-> TRUE, back |-> 0]
AwaitInLoop(k) == [e |-> "await", exit |-> TRUE, back |-> k]
Lock == [e |-> "lock", exit |-> FALSE, back |-> 0]
Unlock == [e |-> "unlock", exit |-> FALSE, back |-> 0]
Sync == [e |-> "sync", exit |-> FALSE, back |-> 0]

\* The three awaits of a rebuild's reads come before the lock; the guard
\* lives to the end of the if let block.
Rebuild == <<Await, Await, Lock, Sync, Unlock>>

\* Variant: add_transaction loads the prices with the guard alive.
Programs_LoadUnderLock ==
    [add_transaction |-> <<Await, Await, Lock, Await, Sync, Unlock>>,
     clear_transactions |-> <<AwaitOrReturn>> \o Rebuild,
     delete_instrument |-> <<AwaitOrReturn, AwaitOrReturn>> \o Rebuild,
     subscribe_instrument |-> <<AwaitOrReturn, Await>> \o Rebuild,
     add_position |-> <<Lock, Sync, Unlock, Lock, Sync, Unlock>>,
     update_position |-> <<Lock, Sync, Unlock>>,
     delete_position |-> <<Lock, Sync, Unlock>>,
     get_portfolio |-> <<Lock, Sync, Unlock>>,
     stream_updates |-> <<Sync, Lock, Sync, Unlock, Await, AwaitInLoop(5)>>]

\* The handlers that touch the mutex.
Programs ==
    [add_transaction |-> <<Await>> \o Rebuild,
     clear_transactions |-> <<AwaitOrReturn>> \o Rebuild,
     delete_instrument |-> <<AwaitOrReturn, AwaitOrReturn>> \o Rebuild,
     subscribe_instrument |-> <<AwaitOrReturn, Await>> \o Rebuild,
     add_position |-> <<Lock, Sync, Unlock, Lock, Sync, Unlock>>,
     update_position |-> <<Lock, Sync, Unlock>>,
     delete_position |-> <<Lock, Sync, Unlock>>,
     get_portfolio |-> <<Lock, Sync, Unlock>>,
     stream_updates |-> <<Sync, Lock, Sync, Unlock, Await, AwaitInLoop(5)>>]

\* The event a task is at.
EventOf(t) == Programs[mutex.prog[t]][mutex.at[t]]

\* axum starts a handler for a request; a slot runs the request handlers, a
\* client GET /stream.
mutex_start(t, op) ==
    /\ mutex.at[t] = 0
    /\ mutex.runs < MaxRuns
    /\ mutex' = [mutex EXCEPT !.at[t] = 1, !.prog[t] = op, !.runs = @ + 1]
    /\ UNCHANGED <<db, portfolio, bus, subs, reqs, ws, hist, lots_out, provider,
                   lib_portfolio, call>>

\* The place after the event at k: the next event, or 0 after the last.
After(op, k) == IF k = Len(Programs[op]) THEN 0 ELSE k + 1

\* A task passes the event it is at: an await completes, lock() returns
\* the guard, the guard is dropped, or code without a suspension point runs.
mutex_step(t) ==
    /\ mutex.at[t] > 0
    /\ LET ev == EventOf(t)
           op == mutex.prog[t]
       IN  /\ ev.e = "lock" => mutex.holder = "free"
           /\ \E to \in {After(op, mutex.at[t])}
                        \cup (IF ev.exit THEN {0} ELSE {})
                        \cup (IF ev.back > 0 THEN {ev.back} ELSE {}) :
                 mutex' = [mutex EXCEPT
                             !.at[t] = to,
                             !.prog[t] = IF to = 0 THEN "none" ELSE @,
                             !.holder = IF ev.e = "lock" THEN t
                                        ELSE IF ev.e = "unlock" THEN "free" ELSE @]
    /\ UNCHANGED <<db, portfolio, bus, subs, reqs, ws, hist, lots_out, provider,
                   lib_portfolio, call>>

HandlerPrograms == DOMAIN Programs \ {"stream_updates"}

NextMutex ==
    \/ \E t \in Slots, op \in HandlerPrograms : mutex_start(t, op)
    \/ \E t \in Clients : mutex_start(t, "stream_updates")
    \/ \E t \in Slots \cup Clients : mutex_step(t)

\* main(): the service listens; no request yet.
InitMutex ==
    /\ txs = {}
    /\ instruments = [s \in Symbols |-> NoRow]
    /\ price_history = <<>>
    /\ portfolio = [portfolio_value |-> 0, positions |-> <<>>]
    /\ bus = EmptyBus
    /\ subs = [c \in Clients |-> NoClient]
    /\ reqs = [r \in Slots |-> Idle]
    /\ ws = WsStart
    /\ hist = NoHist
    /\ lots_out = <<>>
    /\ LibAtRest

SpecMutex == InitMutex /\ [][NextMutex]_vars
\* The runtime polls every task that can run, and a thread that runs goes on.
SpecMutexFair == SpecMutex /\ \A t \in Slots \cup Clients : WF_vars(mutex_step(t))

----------------------------------------------------------------------------
(* SpecLots: the replay as a function of the log.  Init draws a log; the   *)
(* one action runs compute_lots_from_db on it.                             *)

\* A log: each id is unused or carries one row.
LogOf(f) == { Row(i, f[i]) : i \in { j \in LogIds : f[j].type # "none" } }

InitLots ==
    /\ \E f \in [LogIds -> RowInputs \cup {[type |-> "none"]}] : txs = LogOf(f)
    /\ lots_out = <<>>
    /\ LibAtRest
    /\ instruments = [s \in Symbols |-> NoRow]
    /\ price_history = <<>>
    /\ portfolio = [portfolio_value |-> 0, positions |-> <<>>]
    /\ bus = EmptyBus
    /\ subs = [c \in Clients |-> NoClient]
    /\ reqs = [r \in Slots |-> Idle]
    /\ ws = WsStart
    /\ hist = NoHist

Replay ==
    /\ lots_out = <<>>
    /\ lots_out' = <<compute_lots_from_db(txs)>>
    /\ UNCHANGED <<txs, instruments, price_history, portfolio, bus, subs, reqs, ws, hist, lib>>

NextLots == Replay

SpecLots == InitLots /\ [][NextLots]_vars

----------------------------------------------------------------------------
(* SpecSkipped: the replay of a log that also holds rows the match skips:  *)
(* a type that is neither BUY nor SELL, a quantity that is not positive.   *)
(* The columns are TEXT and DOUBLE PRECISION without a CHECK, and          *)
(* add_transaction inserts the body as given.                              *)

SkippedInputs ==
    [type : {"DIVIDEND"}, symbol : Symbols, quantity : {2},
     price : {<<1>>}, timestamp : Times]
    \cup [type : {"BUY", "SELL"}, symbol : Symbols, quantity : {0, -2},
          price : {NoPrice}, timestamp : {2}]
AppliedInputs ==
    [type : {"BUY"}, symbol : Symbols, quantity : {2}, price : {<<1>>}, timestamp : Times]
    \cup [type : {"BUY"}, symbol : Symbols, quantity : {1}, price : {NoPrice}, timestamp : Times]
    \cup [type : {"SELL"}, symbol : Symbols, quantity : {2}, price : {NoPrice}, timestamp : Times]

InitSkipped ==
    /\ \E f \in [LogIds -> SkippedInputs \cup AppliedInputs \cup {[type |-> "none"]}] :
          txs = LogOf(f)
    /\ lots_out = <<>>
    /\ LibAtRest
    /\ instruments = [s \in Symbols |-> NoRow]
    /\ price_history = <<>>
    /\ portfolio = [portfolio_value |-> 0, positions |-> <<>>]
    /\ bus = EmptyBus
    /\ subs = [c \in Clients |-> NoClient]
    /\ reqs = [r \in Slots |-> Idle]
    /\ ws = WsStart
    /\ hist = NoHist

SpecSkipped == InitSkipped /\ [][NextLots]_vars

----------------------------------------------------------------------------
(* SpecOrder: the replay of a log whose rows were inserted in some order.  *)
(* A row carries at, its place in the order the INSERTs completed; its id  *)
(* (Uuid::new_v4) and its timestamp (the client's, when given) are         *)
(* independent of that order.                                               *)

OrderInputs ==
    [type : {"BUY"}, symbol : Symbols, quantity : {2}, price : {<<1>>}, timestamp : Times]
    \cup [type : {"BUY"}, symbol : {"A"}, quantity : {4}, price : {NoPrice}, timestamp : Times]
    \cup [type : {"SELL"}, symbol : Symbols, quantity : {2}, price : {NoPrice}, timestamp : Times]

\* The row with id i and body d whose INSERT completed as the k-th.
Inserted(k, i, d) == [at |-> k] @@ Row(i, d)

InitOrder ==
    /\ \E n \in 0 .. MaxInserted :
          \E f \in [1 .. n -> OrderInputs], ids \in Permutations(1 .. n) :
             txs = { Inserted(k, ids[k], f[k]) : k \in 1 .. n }
    /\ lots_out = <<>>
    /\ LibAtRest
    /\ instruments = [s \in Symbols |-> NoRow]
    /\ price_history = <<>>
    /\ portfolio = [portfolio_value |-> 0, positions |-> <<>>]
    /\ bus = EmptyBus
    /\ subs = [c \in Clients |-> NoClient]
    /\ reqs = [r \in Slots |-> Idle]
    /\ ws = WsStart
    /\ hist = NoHist

SpecOrder == InitOrder /\ [][NextLots]_vars

----------------------------------------------------------------------------
(* Claims about the lot engine (SpecLots) *)

Replayed == lots_out # <<>>
Lots == lots_out[1]
Ordered == OrderedRows(txs)

\* Every quantity of the log is a whole number of shares.
WholeShares == \A r \in txs : r.quantity % Unit = 0

\* Sum of the quantities of the rows of one type and symbol.
RECURSIVE QtyOf(_, _, _)
QtyOf(rows, type, s) ==
    IF rows = <<>> THEN 0
    ELSE (IF Head(rows).type = type /\ Head(rows).symbol = s
          THEN Head(rows).quantity ELSE 0) + QtyOf(Tail(rows), type, s)

\* The open quantity of a symbol when every SELL takes what is open and
\* no more: a balance that a SELL cannot push below zero.
RECURSIVE ClampedBalance(_, _, _)
ClampedBalance(rows, s, bal) ==
    IF rows = <<>> THEN bal
    ELSE LET r == Head(rows)
             next == IF r.symbol # s THEN bal
                     ELSE IF r.type = "BUY" THEN bal + r.quantity
                     ELSE IF r.type = "SELL" THEN Max(bal - r.quantity, 0)
                     ELSE bal
         IN  ClampedBalance(Tail(rows), s, next)

\* C1 as stated: after the replay the remaining quantities of each symbol
\* sum to (sum of its BUYs) - min(sum of its SELLs, sum of its BUYs).  Read
\* here on logs of whole shares, where the replay already differs from it.
C1_NetOfTotals ==
    (Replayed /\ WholeShares) =>
        \A s \in Symbols :
            SumQty(Lots[s]) =
                QtyOf(Ordered, "BUY", s)
                  - Min(QtyOf(Ordered, "SELL", s), QtyOf(Ordered, "BUY", s))

\* C1 amended: on logs of whole shares the remaining quantities of each
\* symbol sum to its BUYs minus, for each SELL in (t, id) order, the smaller
\* of the SELL quantity and the quantity open at that SELL.
C1_ClampedPerSell ==
    (Replayed /\ WholeShares) =>
        \A s \in Symbols : SumQty(Lots[s]) = ClampedBalance(Ordered, s, 0)

\* An oversell followed by a BUY has been replayed: the two sums differ.
C1_Witness ==
    /\ Replayed /\ WholeShares
    /\ \E s \in Symbols :
        /\ SumQty(Lots[s]) > 0
        /\ QtyOf(Ordered, "SELL", s) > QtyOf(Ordered, "BUY", s)

\* The lots the BUYs of a symbol create, in (t, id) order, keeping those
\* whose quantity is above the floor.
RECURSIVE BoughtLots(_, _, _)
BoughtLots(rows, s, floor) ==
    IF rows = <<>> THEN <<>>
    ELSE LET r == Head(rows)
         IN  (IF r.type = "BUY" /\ r.symbol = s /\ r.quantity > floor
              THEN <<<<r.quantity, PriceOrZero(r.price)>>>> ELSE <<>>)
             \o BoughtLots(Tail(rows), s, floor)

\* open is a suffix of bought: same unit costs, and only its first lot may
\* hold less than it was bought with.
FifoSuffix(open, bought) ==
    /\ Len(open) <= Len(bought)
    /\ LET k == Len(bought) - Len(open)
       IN  \A j \in 1 .. Len(open) :
              /\ open[j][2] = bought[k + j][2]
              /\ open[j][1] <= bought[k + j][1]
              /\ open[j][1] > 0
              /\ (j > 1 => open[j][1] = bought[k + j][1])

\* C2 as stated: after the replay each symbol's lots are a suffix of the
\* lots its BUYs created, with the BUY's unit cost, and only the first can
\* hold less than its BUY quantity.
C2_SuffixOfAllBuys ==
    Replayed => \A s \in Symbols : FifoSuffix(Lots[s], BoughtLots(Ordered, s, 0))

\* C2 amended: after the replay each symbol's lots with more than epsilon
\* remaining are a suffix of the lots created by its BUYs of more than
\* epsilon, with the BUY's unit cost, and only the first can hold less than
\* its BUY quantity.
C2_SuffixAboveEpsilon ==
    Replayed =>
        \A s \in Symbols :
            FifoSuffix(RetainOpen(Lots[s]), BoughtLots(Ordered, s, EPSILON))

\* Two BUYs at different unit costs and a SELL that takes the first lot and
\* a part of the second: what is left is the rest of the second lot.
C2_Witness ==
    /\ Replayed
    /\ Len(Ordered) = 3
    /\ \E s \in Symbols :
        /\ \A i \in 1 .. 3 : Ordered[i].symbol = s
        /\ Ordered[1].type = "BUY" /\ Ordered[1].quantity = 2 /\ Ordered[1].price = NoPrice
        /\ Ordered[2].type = "BUY" /\ Ordered[2].quantity = 4 /\ Ordered[2].price = <<1>>
        /\ Ordered[3].type = "SELL" /\ Ordered[3].quantity = 4
        /\ Lots[s] = << <<2, 1>> >>

\* The rows before the k-th of the ordered log.
RowsBefore(k) == { Ordered[i] : i \in 1 .. (k - 1) }

\* The k-th row is a SELL of more than its symbol has open at that point.
Oversell(k) ==
    /\ Ordered[k].type = "SELL"
    /\ Ordered[k].quantity >
         SumQty(compute_lots_from_db(RowsBefore(k))[Ordered[k].symbol])

\* C3: a SELL of more than the symbol has open leaves the symbol without
\* lots, no lot ever has a negative remaining quantity, and a BUY that
\* follows the oversell keeps its whole quantity.
C3_OversellClamped ==
    Replayed =>
        LET n == Len(Ordered) IN
        /\ \A s \in Symbols : \A j \in 1 .. Len(Lots[s]) : Lots[s][j][1] >= 0
        /\ (n >= 1 /\ Oversell(n)) => Lots[Ordered[n].symbol] = <<>>
        /\ (/\ n >= 2 /\ Oversell(n - 1)
            /\ Ordered[n].type = "BUY" /\ Ordered[n].symbol = Ordered[n - 1].symbol)
             => Lots[Ordered[n].symbol] =
                  << <<Ordered[n].quantity, PriceOrZero(Ordered[n].price)>> >>

\* A BUY, an oversell and a further BUY of one symbol have been replayed.
C3_Witness ==
    /\ Replayed
    /\ Len(Ordered) = 3
    /\ Ordered[1].type = "BUY" /\ Ordered[1].symbol = Ordered[2].symbol
    /\ Oversell(2)
    /\ Ordered[3].type = "BUY" /\ Ordered[3].symbol = Ordered[2].symbol
    /\ Len(Lots[Ordered[3].symbol]) = 1

----------------------------------------------------------------------------
(* Claims about the service *)

\* The sum of the value fields, taken from the head.
RECURSIVE ValueTotal(_)
ValueTotal(positions) ==
    IF positions = <<>> THEN 0 ELSE Head(positions).value + ValueTotal(Tail(positions))

Consistent(snapshot) == snapshot.portfolio_value = ValueTotal(snapshot.positions)

\* A snapshot that the builder can produce from the tables as they are.
RebuiltFrom(log, registry) ==
    { build_portfolio_update_from_lots(compute_lots_from_db(log), registry, order) :
        order \in SymbolOrders }

\* The replay of the log has an open lot (remaining above epsilon) for sym.
OpenLotOf(log, sym) ==
    \E k \in 1 .. Len(compute_lots_from_db(log)[sym]) :
        compute_lots_from_db(log)[sym][k][1] > EPSILON

\* C4: in every reachable state the cached snapshot, every snapshot held by
\* the bus and the snapshot handed to the last send have portfolio_value
\* equal to the sum of the value fields of their positions, whatever
\* handlers (transactions, clear-all, instrument deletion and subscription,
\* legacy add and delete of positions) have run, in two slots at once.
C4_ValueIsSumOfPositions ==
    /\ Consistent(portfolio)
    /\ \A k \in 1 .. Len(bus.buf) : Consistent(bus.buf[k].snap)
    /\ \A k \in 1 .. Len(hist.last) : Consistent(hist.last[k].snap)

\* C4 witness: a snapshot of two positions worth more than 0 has been
\* published and is cached.
C4_Witness ==
    /\ hist.sends > 0
    /\ hist.last[1].snap = portfolio
    /\ Len(portfolio.positions) >= 2
    /\ portfolio.portfolio_value > 0

\* C5 (as stated): whenever a row leaves the instrument registry, the replay
\* of the transaction log at that moment has no open lot for its symbol,
\* also when POST /transactions handlers run in the other slot.
C5_RowRemovedOnlyWithoutOpenLot ==
    [][\A sym \in Symbols :
          (instruments[sym] # NoRow /\ instruments'[sym] = NoRow)
              => ~OpenLotOf(txs, sym)]_vars

\* The step in which the handler of slot r answers with the given status.
Answers(r, op, status) ==
    /\ reqs'[r].pc = "done"
    /\ reqs'[r].op = op
    /\ reqs'[r].status = status

\* The guard step of DELETE /instruments/sym in slot r.
GuardStep(r, sym) ==
    /\ Free(r)
    /\ reqs'[r].op = "delete_instrument"
    /\ reqs'[r].sym = sym
    /\ reqs'[r].pc \in {"done", "delete"}

\* With one handler at a time, DELETE /instruments/sym answers 409 exactly
\* when the replay has an open lot for sym, and then changes nothing and
\* publishes nothing.
RefusedWhenOpen ==
    \A sym \in Symbols :
        GuardStep("r1", sym) =>
            IF OpenLotOf(txs, sym)
            THEN /\ Answers("r1", "delete_instrument", 409)
                 /\ UNCHANGED <<txs, instruments, price_history, portfolio, bus>>
                 /\ hist'.sends = hist.sends
            ELSE reqs'["r1"].pc = "delete"

C7_PersistRebuildStorePublish ==
    [][LET h == reqs["r1"]
       IN  h.pc \in {"lots", "prices", "publish"}
           /\ h.op \in {"add_transaction", "clear_transactions", "delete_instrument"}
           => IF h.pc = "publish"
              THEN /\ h.op = "add_transaction" => h.arg \in txs
                   /\ h.op = "clear_transactions" => txs = {}
                   /\ h.op = "delete_instrument" => instruments[h.sym] = NoRow
                   /\ portfolio' \in RebuiltFrom(txs, instruments)
                   /\ hist'.sends = hist.sends + 1
                   /\ hist'.last = <<[seq |-> hist'.sends, snap |-> portfolio']>>
              ELSE hist'.sends = hist.sends /\ portfolio' = portfolio]_vars

\* C8 (as stated): once the ingest task has processed the records of a
\* frame and is back at the socket, a snapshot has been sent for each batch
\* so far and the cached snapshot is one rebuilt from the log and the
\* registry as they are.
C8_SnapshotAfterBatch ==
    (ws.pc = "recv" /\ ws.batches > 0) =>
        /\ hist.sends >= ws.batches
        /\ portfolio \in RebuiltFrom(txs, instruments)

\* The update events of a stream.
UpdatesOf(c) == Tail(subs[c].events)

\* C9 (as stated): for every stream, the first event is the initial
\* snapshot and it is the cached snapshot as it was written at or before the
\* registration, and every later event is a send made after the
\* registration, in order and without a gap; so the snapshot of a send made
\* after the registration is never the initial snapshot as well.
C9_InitialThenLaterUpdates ==
    \A c \in Clients :
        subs[c].pc = "streaming" =>
            LET ev == subs[c].events
            IN  /\ ev[1].kind = "initial"
                /\ ev[1].ver <= subs[c].reg.ver
                /\ \A k \in 2 .. Len(ev) :
                      /\ ev[k].kind = "update"
                      /\ ev[k].seq = subs[c].reg.sends + (k - 1)

\* C10: a stream receives the sends made since its registration in their
\* order and without a gap; while it is at most Capacity sends behind, the
\* send it receives next is still in the ring; and the cached snapshot is
\* the snapshot of the last send whether or not a Receiver existed, a send
\* without Receiver leaving the ring alone.
C10_DeliveredInOrder ==
    /\ \A c \in Clients :
          subs[c].pc \in {"registered", "streaming"} =>
              LET got == subs[c].next - subs[c].reg.pos
                  behind == bus.pos - subs[c].next
              IN  /\ subs[c].pc = "streaming" =>
                        /\ Len(UpdatesOf(c)) = got
                        /\ \A k \in 1 .. got : UpdatesOf(c)[k].seq = subs[c].reg.sends + k
                  /\ (behind > 0 /\ behind <= Capacity) =>
                        /\ Len(bus.buf) >= behind
                        /\ bus.buf[Len(bus.buf) - behind + 1].seq = subs[c].reg.sends + got + 1
    /\ hist.sends > 0 => (hist.last[1].seq = hist.sends /\ hist.last[1].snap = portfolio)
    /\ bus.pos <= hist.sends

\* C10 witness: with two streams connected and an empty log, a BUY of one
\* share of A at registry price 2 has reached both as an update of value
\* 2 * Unit.
C10_Witness ==
    /\ \A c \in Clients :
          /\ subs[c].pc = "streaming"
          /\ Len(subs[c].events) = 2
          /\ subs[c].events[1].value = 0
          /\ subs[c].events[2].value = 2 * Unit
    /\ \E row \in txs : txs = {row} /\ row.type = "BUY" /\ row.quantity = Unit
    /\ instruments["A"] = <<2>>

\* C11 (as stated): a stream that has fallen more than the capacity of the
\* bus behind only misses the overwritten snapshots: it is never ended by
\* the lag, so it can go on to receive the snapshots sent afterwards.
C11_LagDoesNotEndStream ==
    \A c \in Clients : subs[c].pc # "lagged"

----------------------------------------------------------------------------
(* Claims about the ingest task *)

\* The state of the ingest task, by its position in run_loop.
IngestState(w) ==
    CASE w.pc = "sleep" -> "Disconnected"
      [] w.pc = "connect" -> "Connecting"
      [] w.pc \in {"symbols", "subscribe"} -> "Subscribing"
      [] w.pc \in {"recv", "upsert", "history"} -> "Streaming"

IngestMoves ==
    { <<"Disconnected", "Connecting">>, <<"Connecting", "Subscribing">>,
      <<"Connecting", "Disconnected">>, <<"Subscribing", "Streaming">>,
      <<"Streaming", "Disconnected">> }

\* C12: the ingest task changes state only along Disconnected -> Connecting
\* -> Subscribing -> Streaming -> Disconnected, or from Connecting back to
\* Disconnected when the connect fails; and a tick row or a registry price is
\* written only by a step taken in Streaming.
C12_IngestStateMachine ==
    [][/\ IngestState(ws) # IngestState(ws')
            => <<IngestState(ws), IngestState(ws')>> \in IngestMoves
       /\ (price_history' # price_history \/ instruments' # instruments)
            => (IngestState(ws) = "Streaming" /\ IngestState(ws') = "Streaming")]_vars

\* C12 witness: ticks were persisted in one session and the task, after a
\* disconnect and a sleep, is subscribing on a new connection.
C12_Witness ==
    /\ ws.pc = "subscribe"
    /\ price_history # <<>>
    /\ ws.batches > 0

\* The delay that follows a delay in a run of failed connects (0: no delay
\* since a connect last succeeded).
DelayAfter ==
    (0 :> 1) @@ (1 :> 2) @@ (2 :> 4) @@ (4 :> 8) @@ (8 :> 16) @@ (16 :> 30) @@ (30 :> 30)

\* C13: every delay slept before a reconnect is between 1 and 30 seconds;
\* the first delay after a connect succeeded (or after the start) is 1, and
\* each further delay without a successful connect in between is the next
\* of 1, 2, 4, 8, 16, 30, 30, ...
C13_BackoffDelays ==
    [][(ws.pc = "sleep" /\ ws'.pc = "connect") =>
          /\ ws'.slept \in 1 .. 30
          /\ ws.slept \in DOMAIN DelayAfter
          /\ ws'.slept = DelayAfter[ws.slept]]_vars

\* C13 witness: after a session that persisted ticks, the connects have
\* failed until the delay reached its cap of 30.
C13_Witness ==
    /\ ws.pc = "connect"
    /\ ws.slept = 30
    /\ ws.batches > 0

\* C14, as stated: after a failed connect, a Close frame or socket error, a
\* skipped frame or a failed write, the task eventually attempts a new
\* connection.
C14_AlwaysReconnects ==
    (ws.fault # "none") ~> (ws.pc = "connect")

\* C14, amended: the task has no terminal state (it always has a step of
\* its own to take, or waits for the next frame of an open connection).
\* Whatever it is doing, it eventually calls connect_async again or waits
\* for the next frame; from the sleep that follows a failed connect, a
\* Close frame or a socket error its next step is a new connection
\* attempt; after a skipped frame or a failed write it stays on the open
\* connection, which it leaves only when ws.next() ends it.
C14_NeverStops ==
    /\ [](ws.pc = "recv" \/ ENABLED IngestTask)
    /\ (ws.pc \notin {"recv", "connect"}) ~> (ws.pc \in {"recv", "connect"})
    /\ [][/\ (ws.pc = "sleep") =>
                ws'.pc = "connect" /\ ws.fault \in {"connect", "close"}
          /\ (ws.pc \in {"upsert", "history"}) =>
                ws'.pc \in {"upsert", "history", "recv"}
          /\ (ws.fault \in {"frame", "write"} /\ ws'.pc = "sleep") =>
                ws.pc = "recv"]_vars

\* C14 witness: a write failed, the connection ended later, and the task is
\* back at connect_async after failing to connect once more.
C14_Witness ==
    /\ ws.pc = "connect"
    /\ ws.fault = "connect"
    /\ ws.failed
    /\ ws.slept = 2

\* The symbols that have a row in the registry.
Registered == { x \in Symbols : instruments[x] # NoRow }

----------------------------------------------------------------------------
(* Claims about the order of the log *)

\* The same transactions, inserted in the order pi of their INSERTs.
Reinserted(pi) == { [r EXCEPT !.at = pi[r.at]] : r \in txs }

\* The place of a row among rows by (t, id).
TimeIdRank(r, rows) ==
    1 + Cardinality({ o \in rows : \/ o.timestamp < r.timestamp
                                   \/ o.timestamp = r.timestamp /\ o.id < r.id })
ByTimeThenId(rows) ==
    [k \in 1 .. Cardinality(rows) |-> CHOOSE r \in rows : TimeIdRank(r, rows) = k]

\* C16: the replay of a log equals the replay of the same transactions
\* inserted in any other order, and is the replay of its rows taken by
\* (t, id), wherever their INSERTs fell.
C16_ReplayIgnoresInsertionOrder ==
    Replayed =>
       /\ \A pi \in Permutations(1 .. Cardinality(txs)) :
             compute_lots_from_db(Reinserted(pi)) = Lots
       /\ Lots = ReplayRows([s \in Symbols |-> <<>>], ByTimeThenId(txs))

\* C16 witness: BUY A with t = 2 was inserted first, SELL A with t = 1
\* after it; the SELL is replayed first, finds nothing to consume, and the
\* lot of the BUY stays whole.
C16_Witness ==
    /\ Replayed
    /\ Cardinality(txs) = 2
    /\ \E b \in txs, l \in txs :
          /\ b.type = "BUY" /\ b.symbol = "A" /\ b.timestamp = 2 /\ b.at = 1
          /\ l.type = "SELL" /\ l.symbol = "A" /\ l.timestamp = 1 /\ l.at = 2
    /\ SumQty(Lots["A"]) = 2

\* The ticks of symbol s among the rows of the tick history, oldest first.
TicksOf(s) == SelectSeq(price_history, LAMBDA t : t.s = s)

\* C17: while no write of the task has failed, between two records the
\* registry price of every symbol with a processed trade record is the
\* price of the last of them (the tick history holds the processed
\* records, in order); and a step changes the registry row of a symbol
\* only by processing a trade record of that symbol.
C17_PriceIsLastTrade ==
    /\ []((~ws.failed /\ ws.pc # "history") =>
            \A s \in Symbols :
               TicksOf(s) # <<>> =>
                  instruments[s] = <<TicksOf(s)[Len(TicksOf(s))].p>>)
    /\ [][\A s \in Symbols :
             instruments'[s] # instruments[s] =>
                /\ ws.pc = "upsert"
                /\ Head(ws.data).s = s
                /\ instruments'[s] = <<Head(ws.data).p>>]_vars

\* C17 witness: with an empty registry at the start, two trade records of
\* A at prices 1 and 2 were processed without a failed write: A is in the
\* registry at price 2 and B still has no row.
C17_Witness ==
    /\ ~ws.failed
    /\ ws.pc = "recv"
    /\ price_history = <<[s |-> "A", p |-> 1], [s |-> "A", p |-> 2]>>
    /\ instruments["A"] = <<2>>
    /\ instruments["B"] = NoRow

----------------------------------------------------------------------------
(* Claims about the tables *)

\* The rows a table held stay, unchanged and in place.
Grows(before, after) ==
    /\ Len(after) >= Len(before)
    /\ SubSeq(after, 1, Len(before)) = before

\* The task finishes the INSERT INTO price_history of the record at hand.
RecordDone == ws.pc = "history" /\ ws' # ws

\* C18, as stated: no step removes or changes a tick row, and each
\* processed trade record appends exactly one row.
C18_OneRowPerRecord ==
    [][/\ Grows(price_history, price_history')
       /\ RecordDone => price_history' = Append(price_history, Head(ws.data))]_vars

\* C18, amended: no step (of a handler that deletes an instrument, clears
\* the log or subscribes, or of the task, reconnections included) removes
\* or changes a tick row; rows are added only by the task, one per record
\* whose INSERT succeeds, also when an equal row exists, and none for a
\* record whose INSERT fails.
C18_OneRowPerStoredRecord ==
    [][/\ Grows(price_history, price_history')
       /\ price_history' # price_history => RecordDone
       /\ RecordDone =>
             price_history' = IF ws'.wrote
                              THEN Append(price_history, Head(ws.data))
                              ELSE price_history]_vars

\* C18 witness: the tick history holds two equal rows of A, and the
\* registry row of A has been deleted by DELETE /instruments/A.
C18_Witness ==
    /\ price_history = <<[s |-> "A", p |-> 1], [s |-> "A", p |-> 1]>>
    /\ instruments["A"] = NoRow
    /\ reqs["r1"].pc = "done"
    /\ reqs["r1"].op = "delete_instrument"
    /\ reqs["r1"].status = 204

\* A handler of the given operation takes its first step.
Begins(op) ==
    /\ hist'.quota = hist.quota - 1
    /\ \E r \in Slots : Free(r) /\ reqs'[r] # reqs[r] /\ reqs'[r].op = op

\* C19: POST /transactions adds exactly one row to the log and leaves the
\* rows it held as they were; DELETE /transactions alone removes rows; no
\* other step changes the log.
C19_LogAppendOnly ==
    [][/\ Begins("add_transaction") =>
             \E row \in txs' \ txs : txs' = txs \cup {row}
       /\ Begins("clear_transactions") => txs' \in {txs, {}}
       /\ (~Begins("add_transaction") /\ ~Begins("clear_transactions")) =>
             txs' = txs]_vars

----------------------------------------------------------------------------
(* Claims about the process start *)

\* The process has just started: no request has been taken since.
JustStarted == hist'.boots = hist.boots + 1

----------------------------------------------------------------------------
(* Claims about the provider configuration and GET /price-stream *)

\* A value a request carries (or does not carry) is not the secret.
NotTheSecret(given, expected) == given = None \/ given[1] # expected

\* The GET /price-stream request of slot r carries the secret in effect in
\* neither place.
WithoutSecret(q) ==
    /\ q.op = "price_stream"
    /\ current_webhook_secret # ""
    /\ NotTheSecret(q.header, current_webhook_secret)
    /\ NotTheSecret(q.secret, current_webhook_secret)

\* C21: with a non-empty webhook secret in effect, a GET /price-stream
\* request that carries it neither in x-webhook-secret nor in the secret
\* parameter is answered 401 at once, with the tables unchanged; and a
\* stream that connects to the feed or writes a tick or a price belongs to
\* a request that was not such a request.
C21_UnauthorizedHasNoEffect ==
    /\ [][\A r \in Slots :
            (Begins("price_stream") /\ reqs'[r] # reqs[r] /\ WithoutSecret(reqs'[r])) =>
               /\ reqs'[r].pc = "done"
               /\ reqs'[r].status = 401
               /\ db' = db]_vars
    /\ [](\A r \in Slots :
            (reqs[r].op = "price_stream" /\ reqs[r].pc \in {"connect", "recv"}) =>
               ~WithoutSecret(reqs[r]))
    /\ [][db' # db =>
            \E r \in Slots : reqs[r].op = "price_stream" /\ reqs[r].pc = "recv"]_vars

\* C21 witness: the secret in effect comes from the environment; a request
\* with another value in the header and no secret parameter got 401.
C21_Witness ==
    /\ provider.cfg.webhook_secret = ""
    /\ current_webhook_secret = "k2"
    /\ reqs["r1"].op = "price_stream"
    /\ reqs["r1"].status = 401
    /\ reqs["r1"].header = Some("k1")
    /\ reqs["r1"].secret = None
    /\ price_history = <<>>

\* The values a secret can take without changing whether it is empty.
SameEmptiness(v) == IF v = "" THEN {""} ELSE Secrets \ {""}

\* The provider configurations that differ from p at most in the values of
\* non-empty secrets, in memory and in the table.
SecretVariants(p) ==
    { [p EXCEPT !.cfg = [api_key |-> k, webhook_secret |-> w],
                !.row = IF p.row = None THEN None
                        ELSE Some([p.row[1] EXCEPT !.api_key = rk, !.webhook_secret = rw])] :
        k \in SameEmptiness(p.cfg.api_key),
        w \in SameEmptiness(p.cfg.webhook_secret),
        rk \in IF p.row = None THEN {""} ELSE SameEmptiness(p.row[1].api_key),
        rw \in IF p.row = None THEN {""} ELSE SameEmptiness(p.row[1].webhook_secret) }

\* C22: the body of GET /admin/provider-config is the body the request
\* would have got in every state that differs only in the values of
\* non-empty secrets: it tells whether each secret is set and when it was
\* last written, and nothing of its value.
C22_ResponseHidesSecrets ==
    [][\A r \in Slots :
          (Begins("get_provider_config") /\ reqs'[r] # reqs[r]) =>
             /\ reqs'[r].status = 200
             /\ \A alt \in SecretVariants(provider) :
                   reqs'[r].body = ProviderConfigPublic(alt.cfg, alt.row)
             /\ reqs'[r].body.has_api_key = (provider.cfg.api_key # "")
             /\ reqs'[r].body.has_webhook_secret = (provider.cfg.webhook_secret # "")]_vars

\* C22 witness: after PUT /admin/provider-config has set the webhook secret
\* to "k2", with no API key set, the configuration was read.
C22_Witness ==
    /\ reqs["r1"].op = "get_provider_config"
    /\ reqs["r1"].pc = "done"
    /\ provider.now > 0
    /\ provider.cfg = [api_key |-> "", webhook_secret |-> "k2"]
    /\ reqs["r1"].body.has_webhook_secret
    /\ ~reqs["r1"].body.has_api_key
    /\ reqs["r1"].body.webhook_secret_updated_at = Some(2)

----------------------------------------------------------------------------
(* Claims about services::portfolio *)

Held == lib_portfolio.positions
IdsOf(positions) == { positions[k].id : k \in 1 .. Len(positions) }
\* The call that makes this step, with its result.
Called(op, result) ==
    /\ lib_portfolio' # lib_portfolio
    /\ lib_portfolio'.last.op = op
    /\ lib_portfolio'.last.result = result
\* The positions with another id are the same, in the same order.
OthersKept(before, after, position_id) ==
    SelectSeq(after, LAMBDA q : q.id # position_id)
       = SelectSeq(before, LAMBDA q : q.id # position_id)

\* C23: add_position appends one position with an id no position has had
\* and returns that id; update_position sets the quantity of the position
\* with the id and changes nothing else; remove_position removes that
\* position and no other; both leave the Portfolio as it is when they
\* return Err; get_total_positions is the adds minus the successful
\* removes.
C23_PortfolioOperations ==
    /\ [](/\ get_total_positions = lib_portfolio.adds - lib_portfolio.removes
          /\ Cardinality(IdsOf(Held)) = Len(Held))
    /\ [][/\ (lib_portfolio' # lib_portfolio /\ lib_portfolio'.last.op = "add_position") =>
                /\ Len(Held') = Len(Held) + 1
                /\ SubSeq(Held', 1, Len(Held)) = Held
                /\ Held'[Len(Held')].id = lib_portfolio'.last.result
                /\ lib_portfolio'.last.result > lib_portfolio.minted
          /\ Called("update_position", "Ok") =>
                /\ Len(Held') = Len(Held)
                /\ OthersKept(Held, Held', lib_portfolio'.last.id)
                /\ \E k \in 1 .. Len(Held) :
                      /\ Held[k].id = lib_portfolio'.last.id
                      /\ Held'[k] = [Held[k] EXCEPT !.quantity = lib_portfolio'.last.quantity]
          /\ Called("remove_position", "Ok") =>
                /\ Len(Held') = Len(Held) - 1
                /\ lib_portfolio'.last.id \in IdsOf(Held) \ IdsOf(Held')
                /\ OthersKept(Held, Held', lib_portfolio'.last.id)
          /\ (Called("update_position", "Err") \/ Called("remove_position", "Err")) =>
                /\ Held' = Held
                /\ lib_portfolio'.last.id \notin IdsOf(Held)]_vars

\* C23 witness: three positions were added, the first was removed and the
\* quantity of the third was changed; two positions are left.
C23_Witness ==
    /\ lib_portfolio.adds = 3
    /\ lib_portfolio.removes = 1
    /\ get_total_positions = 2
    /\ IdsOf(Held) = {2, 3}
    /\ Held[2].quantity = 4
    /\ lib_portfolio.last = [op |-> "update_position", id |-> 3, quantity |-> 4, result |-> "Ok"]

----------------------------------------------------------------------------
(* Claims about services::risk *)

BothComputed == call.fn = "risk" /\ call.var # None /\ call.es # None

\* C24: for every confidence level in (0, 1) and every non-empty vector of
\* returns, calculate_expected_shortfall returns at least what
\* calculate_var returns.
C24_ShortfallAtLeastVaR == BothComputed => call.es[1] >= call.var[1]

----------------------------------------------------------------------------
(* Claims about services::portfolio::PortfolioValuationService *)

Valued == call.fn = "value_portfolio" /\ call.result # None /\ ~IsErr(call.result[1])
Abs(x) == IF x >= 0 THEN x ELSE 0 - x
\* x * den is num but for the rounding of k operations, each of at most
\* half a unit in the last place.
WithinRounding(x, num, den, k) ==
    Abs(x * Abs(den) - (IF den >= 0 THEN num ELSE 0 - num))
        <= (k + 1) * (Abs(num) \div Pow2(MantissaBits))
RECURSIVE SumAbs(_)
SumAbs(values) == IF values = <<>> THEN 0 ELSE Abs(Head(values)) + SumAbs(Tail(values))

C25_WitnessZeroTotal ==
    /\ Valued
    /\ Len(call.result[1].positions) = 2
    /\ call.result[1].positions[1].total_value # 0
    /\ call.result[1].total_value = 0
    /\ call.result[1].positions[1].weight = 0

\* C26: the performance is reported only when every position has an
\* average cost.
C26_PerformanceNeedsEveryCost ==
    (Valued /\ \E k \in 1 .. Len(call.positions) : call.positions[k].average_cost = None)
        => call.result[1].performance = None

----------------------------------------------------------------------------
(* Claims about models *)

\* An option at or after its expiry, given to the analytic model with a
\* spot price and a volatility.
AnalyticAtExpiry ==
    /\ call.fn = "kernel"
    /\ call.model.kind = "BlackScholes"
    /\ call.instrument.type = "Option"
    /\ call.instrument.time_to_expiry <= 0
    /\ call.context.spot_price # None
    /\ call.context.volatility # None
\* max(S - K, 0) for a Call, max(K - S, 0) for a Put, times the quantity.
IntrinsicValue ==
    LET S == call.context.spot_price[1]
        K == call.instrument.strike
        per_unit == IF call.instrument.option_type = "Call"
                    THEN (IF S > K THEN S - K ELSE 0)
                    ELSE (IF K > S THEN K - S ELSE 0)
    IN  Round(per_unit * call.instrument.quantity, One)

\* C27: for an option whose time to expiry is <= 0 the analytic model
\* returns the intrinsic value per unit times the quantity, and the five
\* Greeks are 0, whatever the spot, strike, rate and volatility.
C27_IntrinsicAtExpiry ==
    AnalyticAtExpiry =>
        /\ call.value # None =>
              /\ call.value[1].value = Finite(IntrinsicValue)
              /\ call.value[1].greeks = Some(AllGreeks(Some(Finite(0))))
        /\ call.greeks # None => call.greeks[1] = AllGreeks(Some(Finite(0)))

\* C27 witness: a Call of quantity 2 and strike 1 valued at its expiry with
\* the spot at 3: the value is 4, and the Greeks were asked for.
C27_Witness ==
    /\ AnalyticAtExpiry
    /\ call.instrument.option_type = "Call"
    /\ call.instrument.time_to_expiry = 0
    /\ call.value # None
    /\ call.greeks # None
    /\ call.value[1].value = Finite(F64(4))

\* C28: value() and calculate_greeks() return an Ok or an Err for every
\* instrument, market context and model, a Monte-Carlo model with 0 or 1
\* simulations or 0 time steps included: they do not panic.
C28_KernelNeverPanics ==
    call.fn = "kernel" =>
        /\ call.value # None => "panic" \notin DOMAIN call.value[1]
        /\ call.greeks # None => "panic" \notin DOMAIN call.greeks[1]

----------------------------------------------------------------------------
(* Claims about the order of the two writes of the ingest *)

\* The registry holds the price of the record the ingest is at, written by
\* its upsert, and no write of the ingest has failed.
PriceOfRecordVisible ==
    /\ ws.pc = "history"
    /\ ws.wrote
    /\ ~ws.failed
    /\ instruments[Head(ws.data).s] = <<Head(ws.data).p>>

\* C30: for every trade record the ingest appends the tick to the history
\* before it upserts the registry price: whenever the registry shows the
\* price of a record, the tick of that record is a row of the history.
C30_HistoryBeforeRegistry ==
    PriceOfRecordVisible =>
        \E k \in 1 .. Len(price_history) : price_history[k] = Head(ws.data)

----------------------------------------------------------------------------
(* Claims about failed writes of the ingest *)

\* The task runs a write of the record at hand, and the write fails.
WriteFails == ws.pc \in {"upsert", "history"} /\ ws' # ws /\ ~ws'.wrote

\* C31: a failed write of a tick, the upsert or the append, is dropped and
\* the task stays in Streaming: it goes on with the append of the same
\* record, with the next record of the frame, or with the next frame; and
\* when both writes of a later record succeed the registry price of its
\* symbol is the price of that record.
C31_FailedWriteIsDropped ==
    [][/\ WriteFails =>
             /\ IngestState(ws') = "Streaming"
             /\ ws.pc = "upsert" => (ws'.pc = "history" /\ ws'.data = ws.data)
             /\ (ws.pc = "history" /\ Len(ws.data) > 1) =>
                   (ws'.pc = "upsert" /\ ws'.data = Tail(ws.data))
             /\ (ws.pc = "history" /\ Len(ws.data) = 1) => ws'.pc = "recv"
             /\ db' = db
       /\ (ws.failed /\ ws.pc = "history" /\ ws.wrote /\ ws' # ws /\ ws'.wrote) =>
             /\ instruments'[Head(ws.data).s] = <<Head(ws.data).p>>
             /\ price_history' = Append(price_history, Head(ws.data))]_vars

\* C31 witness: both writes of a record of A at price 1 failed, and a later
\* record of A at price 2 was written: the registry price of A is 2 and the
\* history holds that tick alone.
C31_Witness ==
    /\ ws.failed
    /\ ws.pc = "recv"
    /\ ws.seen = 2
    /\ ws.wrote
    /\ instruments["A"] = <<2>>
    /\ price_history = <<[s |-> "A", p |-> 2]>>

----------------------------------------------------------------------------
(* Claims about the snapshot mutex *)

Tasks == Slots \cup Clients
\* The task is suspended: it waits for an await to complete.
Suspended(t) == mutex.at[t] > 0 /\ EventOf(t).e = "await"
\* The task has called lock() and waits for the guard.
Requests(t) == mutex.at[t] > 0 /\ EventOf(t).e = "lock"

\* C32: no task is suspended while it holds the snapshot mutex; the holder
\* can always go on to the end of the guard's scope; and a task that
\* requests the mutex gets it.
C32_NoSuspensionUnderMutex ==
    /\ [](\A t \in Tasks : mutex.holder = t => ~Suspended(t))
    /\ [](\A t \in Tasks : mutex.holder = t => ENABLED mutex_step(t))
    /\ \A t \in Tasks : Requests(t) ~> (mutex.holder = t)

\* C32 witness: a handler holds the mutex, the other handler has called
\* lock() and waits, and a stream client is suspended.
C32_Witness ==
    /\ mutex.holder = "r1"
    /\ Requests("r2")
    /\ Suspended("s1")
    /\ mutex.prog["r2"] = "add_transaction"

----------------------------------------------------------------------------
(* Claims about the rows the replay skips and the lots it keeps *)

\* The match of the replay has no arm that uses the row.
Skipped(row) == row.type \notin {"BUY", "SELL"} \/ row.quantity <= 0

\* C33: a row whose type is neither BUY nor SELL, and a BUY or SELL whose
\* quantity is not positive, leave the lots of every symbol as they would
\* be without the row.
C33_SkippedRowsChangeNoLot ==
    lots_out # <<>> =>
        \A row \in txs : Skipped(row) => lots_out[1] = compute_lots_from_db(txs \ {row})

\* C35: after the replay of any log every lot of the map has more than
\* epsilon remaining.
C35_EveryLotAboveEpsilon ==
    lots_out # <<>> =>
        \A s \in Symbols : \A i \in DOMAIN lots_out[1][s] : lots_out[1][s][i][1] > EPSILON

----------------------------------------------------------------------------
(* Claims about the positions the builder emits *)

\* The lots of the map as one list of <<symbol, lot>>, symbol after symbol
\* in the given order, the lots of a symbol as the replay left them.
RECURSIVE LotsInOrder(_, _)
LotsInOrder(lots, order) ==
    IF order = <<>> THEN <<>>
    ELSE [i \in 1 .. Len(lots[Head(order)]) |-> <<Head(order), lots[Head(order)][i]>>]
         \o LotsInOrder(lots, Tail(order))

\* The registry price of the symbol, 0 when the registry has no row for it.
RegistryPrice(prices, symbol) == IF prices[symbol] = NoRow THEN 0 ELSE prices[symbol][1]

\* The position is the one the lot has: the fields the lot and the price
\* determine.
PositionOfLot(position, symbol, lot, price) ==
    /\ position.symbol = symbol
    /\ position.quantity = lot[1]
    /\ position.average_cost = lot[2]
    /\ position.price = price
    /\ position.value = price * lot[1]
    /\ position.pnl = (price - lot[2]) * lot[1]
    /\ lot[2] <= 0 => position.pnl_percent = 0

\* The handler of slot r1 builds, stores and sends a snapshot in this step.
Builds == reqs["r1"].pc = "publish" /\ reqs'["r1"].pc = "done"

\* C34: the snapshot a handler builds has exactly one position per lot of
\* the lot map, in the order of the lots of each symbol, with the lot's
\* quantity and unit cost, the registry price of the symbol (0 without a
\* row), value and pnl computed from them, and pnl_percent 0 when the unit
\* cost is not positive.
C34_OnePositionPerLot ==
    [][Builds =>
          \E order \in SymbolOrders :
              LET pairs == LotsInOrder(reqs["r1"].lots, order)
              IN  /\ Len(portfolio'.positions) = Len(pairs)
                  /\ \A k \in 1 .. Len(pairs) :
                        PositionOfLot(portfolio'.positions[k], pairs[k][1], pairs[k][2],
                                      RegistryPrice(reqs["r1"].prices, pairs[k][1]))]_vars

\* C34 witness: a handler has built a snapshot with two positions of one
\* symbol at the same unit cost, the symbol without a row in the registry.
C34_Witness ==
    /\ reqs["r1"].pc = "done"
    /\ hist.sends > 0
    /\ hist.last[1].snap = portfolio
    /\ Len(portfolio.positions) >= 2
    /\ portfolio.positions[1].symbol = portfolio.positions[2].symbol
    /\ portfolio.positions[1].average_cost = portfolio.positions[2].average_cost
    /\ instruments[portfolio.positions[1].symbol] = NoRow
    /\ portfolio.positions[1].price = 0

----------------------------------------------------------------------------
(* Claims about DELETE /transactions *)

\* Slot r1 is in, or ends, a DELETE /transactions after this step.
Clearing == reqs'["r1"].op = "clear_transactions" /\ reqs' # reqs
\* The step of the DELETE statement.
ClearStarts == Free("r1") /\ Clearing
EmptySnapshot == [portfolio_value |-> 0, positions |-> <<>>]

C36_WitnessFailed ==
    /\ reqs["r1"].pc = "done"
    /\ reqs["r1"].op = "clear_transactions"
    /\ reqs["r1"].status = 500
    /\ txs # {}
    /\ portfolio.positions # <<>>

----------------------------------------------------------------------------
(* Claims about the errors of services::portfolio *)

\* The call that makes this step names an id that no position has.
CalledWithUnknownId(op) ==
    /\ lib_portfolio' # lib_portfolio
    /\ lib_portfolio'.last.op = op
    /\ lib_portfolio'.last.id \notin IdsOf(Held)

\* C37: update_position and remove_position called with an id that no
\* position has return the error and leave the positions, their order and
\* quantities, and updated_at as they were.
C37_UnknownIdChangesNothing ==
    [][\A op \in {"update_position", "remove_position"} :
          CalledWithUnknownId(op) =>
              /\ lib_portfolio'.last.result = "Err"
              /\ Held' = Held
              /\ lib_portfolio'.updated_at = lib_portfolio.updated_at]_vars

\* C37 witness: with two positions held and updated_at set by an earlier
\* call, remove_position was called with the id of a position removed
\* before and returned the error.
C37_Witness ==
    /\ lib_portfolio.last = [op |-> "remove_position", id |-> 1, result |-> "Err"]
    /\ lib_portfolio.removes = 1
    /\ IdsOf(Held) = {2, 3}
    /\ lib_portfolio.updated_at = MaxClock

====
